---- MODULE Spec2Model ----
(***************************************************************************)
(* Malaysia-Econ-DB: the process orchestrator (main), the Query API task   *)
(* (runHttpsServer), the interactive command dispatcher (runCli) with its  *)
(* ingestion handlers, and the relational store behind the upsert queries. *)
(*                                                                         *)
(* Dates are calendar-day numbers 1..MaxDay; a date STRING is one of the   *)
(* entries of DateStrOf or a malformed text.  Rates and prices are         *)
(* integers counting 1/100000 on the wire and 1/10000 (DECIMAL(_,4)) in    *)
(* the store.  time.Now() and uuid.New() are a logical clock that every    *)
(* upsert call advances.                                                   *)
(*                                                                         *)
(* The runs modelled are those in which ListenAndServeTLS keeps serving    *)
(* until Shutdown: a listener that fails ends the process by log.Fatalf.   *)
(***************************************************************************)
EXTENDS Integers, Sequences, FiniteSets, TLC

\* ---- bounds of the model ----
MaxDay == 3
MaxLines == 2
MaxCmds == 1
MaxEntries == 2
MaxStocks == 2

\* ---- program constants ----
ChanCap == 1
WgParties == 2

VARIABLES
  mainPc,        \* main: "select" | "sigSend" | "cancel" | "wait" | "done"
  srvPc,         \* runHttpsServer: "recv" | "shutdown" | "return" | "done"
  cliPc,         \* runCli: "read" | handler positions | deferred steps | "done"
  chanBuf,       \* shutdownChan: number of buffered values
  chanClosed,    \* shutdownChan: closed?
  sigPending,    \* sigChan holds an undelivered OS signal
  sigTaken,      \* main took the sigChan branch of its select
  ctxCancelled,  \* cancel() has been called
  wg,            \* sync.WaitGroup counter
  panicked,      \* the runtime panicked (the process is gone)
  linesLeft,     \* lines the operator will still type
  input,         \* runCli: input, err of the last scanner.ReadString
  cfg,           \* AppState.cfg (immutable settings)
  cmd,           \* the command being executed / last executed
  last,          \* outcome of the last finished command
  dates,         \* handlerFxFetchRange: dates slice
  rates,         \* handlerFxFetchAll: rates.Data
  idx,           \* loop position of the running batch handler (1-based)
  counts,        \* handlerFxFetchRange: the four counters
  inv,           \* bookkeeping of the current invocation (network calls, upserts, ...)
  fxStore,       \* table foreign_exchange
  priceStore,    \* table daily_stock_prices
  companies,     \* table companies
  clock,         \* logical time: time.Now(), uuid.New(), NOW()
  today,         \* calendar day last observed by time.Now().UTC()
  fxWritten,     \* history: per (currency_code, date), the last rate upsert applied
  priceWritten,  \* history: per (stock_code, price_date), the last price upsert applied
  api,           \* Query API: the last response written by a handler, the path it
                 \* serves, and whether the handler ran its query
  asked          \* Query API: the request that response answers

lifeVars == <<mainPc, srvPc, chanBuf, chanClosed, sigPending, sigTaken, ctxCancelled,
              wg, panicked>>
cliVars == <<cliPc, linesLeft, input, cmd, last, dates, rates, idx, counts, inv>>
dbVars == <<fxStore, priceStore, companies, clock, today, fxWritten, priceWritten>>
vars == <<lifeVars, cliVars, dbVars, cfg, api, asked>>

\* ---------------------------------------------------------------------------
\* Strings, dates, numbers
\* ---------------------------------------------------------------------------

\* The text of calendar day n in layout "2006-01-02".
DateStrOf ==
  <<"2024-01-01", "2024-01-02", "2024-01-03", "2024-01-04", "2024-01-05", "2024-01-06">>

Days == 1..MaxDay
DateStrs == {DateStrOf[n] : n \in Days}
BadDateStr == "2024-1-2x"

\* time.Parse("2006-01-02", s)
ParseDate(s) ==
  IF \E n \in Days : DateStrOf[n] = s
    THEN [err |-> FALSE, day |-> CHOOSE n \in Days : DateStrOf[n] = s]
    ELSE [err |-> TRUE, day |-> 0]

\* t.Format("2006-01-02")
FormatDate(n) == DateStrOf[n]

\* strings.ToUpper on the words the model uses
ToUpper(s) ==
  CASE s = "usd" -> "USD"
    [] s = "eur" -> "EUR"
    [] s = "us" -> "US"
    [] OTHER -> s

\* fmt.Sprintf("%.4f", x) followed by the column's DECIMAL(_,4): x counts 1/100000,
\* the result counts 1/10000 (round to nearest; the wire values avoid ties).
Fmt4(x) == (x + 5) \div 10

\* fmt.Sprint(x) keeps every digit; the DECIMAL(10,4) column rounds on insert.
SprintDec4(x) == (x + 5) \div 10

\* ---------------------------------------------------------------------------
\* The store: sql/schema and sql/queries
\* ---------------------------------------------------------------------------

Null == "NULL"

\* Faulty variant of the nullable text: always valid, the empty text stored as such.
NullStringValid(s) == s

\* sql.NullString{String: s, Valid: s != ""}
NullString(s) == IF s = "" THEN Null ELSE s

\* Faulty variant of the rate upsert: a plain INSERT, no ON CONFLICT clause.
UpsertForeignExchangeInsertOnly(store, p) == store \cup {p}

\* UpsertForeignExchange: INSERT ... ON CONFLICT (currency_code, date) DO UPDATE SET
\* buying_rate, selling_rate, middle_rate, created_at (the id of the row is kept).
UpsertForeignExchange(store, p) ==
  IF \E r \in store : r.currency_code = p.currency_code /\ r.date = p.date
    THEN {IF r.currency_code = p.currency_code /\ r.date = p.date
            THEN [r EXCEPT !.buying_rate = p.buying_rate,
                           !.selling_rate = p.selling_rate,
                           !.middle_rate = p.middle_rate,
                           !.created_at = p.created_at]
            ELSE r : r \in store}
    ELSE store \cup {p}

\* daily_stock_prices.stock_code REFERENCES companies(stock_code)
PriceForeignKeyOk(comp, code) == \E c \in comp : c.stock_code = code

\* UpsertStockPrice: INSERT ... ON CONFLICT (stock_code, price_date) DO UPDATE SET
\* closing_price, source_url, extracted_at = CURRENT_TIMESTAMP.
UpsertStockPrice(store, p, now) ==
  IF \E r \in store : r.stock_code = p.stock_code /\ r.price_date = p.price_date
    THEN {IF r.stock_code = p.stock_code /\ r.price_date = p.price_date
            THEN [r EXCEPT !.closing_price = p.closing_price,
                           !.source_url = p.source_url,
                           !.extracted_at = now]
            ELSE r : r \in store}
    ELSE store \cup {[id |-> now, stock_code |-> p.stock_code, price_date |-> p.price_date,
                      closing_price |-> p.closing_price, source_url |-> p.source_url,
                      extracted_at |-> now]}

\* UpsertCompany: INSERT ... ON CONFLICT (stock_code) DO UPDATE SET the descriptive
\* fields, profile_last_scraped_at = NOW(), updated_at = NOW() (created_at is kept).
UpsertCompany(store, p, now) ==
  IF \E r \in store : r.stock_code = p.stock_code
    THEN {IF r.stock_code = p.stock_code
            THEN [r EXCEPT !.company_name = p.company_name,
                           !.country_code = p.country_code,
                           !.sector = p.sector,
                           !.subsector = p.subsector,
                           !.listing_date = p.listing_date,
                           !.profile_source_url = p.profile_source_url,
                           !.profile_last_scraped_at = now,
                           !.updated_at = now]
            ELSE r : r \in store}
    ELSE store \cup {[stock_code |-> p.stock_code, company_name |-> p.company_name,
                      country_code |-> p.country_code, sector |-> p.sector,
                      subsector |-> p.subsector, listing_date |-> p.listing_date,
                      profile_source_url |-> p.profile_source_url,
                      profile_last_scraped_at |-> now, created_at |-> now,
                      updated_at |-> now]}

\* ---------------------------------------------------------------------------
\* The rate API client (package fxclient)
\* ---------------------------------------------------------------------------

\* What the rate API can put in a rate entry: values in 1/100000.
Quotes ==
  {[buying_rate |-> 441234, selling_rate |-> 445678, middle_rate |-> 443456],
   [buying_rate |-> 470012, selling_rate |-> 474321, middle_rate |-> 472166]}

WireDates == DateStrs \cup {BadDateStr}
NoQuote == [buying_rate |-> 0, selling_rate |-> 0, middle_rate |-> 0]
NoRate == [currency_code |-> "", date |-> "", quote |-> NoQuote]

\* Outcomes of one GET of the single-rate endpoint: status 0 stands for a transport
\* failure, decodable for a body json.Decode accepts.
SingleResponses ==
  {[status |-> st, decodable |-> FALSE, data |-> NoRate] : st \in {0, 200, 404, 500}}
  \cup {[status |-> 200, decodable |-> TRUE,
         data |-> [currency_code |-> c, date |-> d, quote |-> q]] :
          c \in {"USD"}, d \in WireDates, q \in Quotes}

\* Faulty variant of the client: a 404 is reported like any other status but 200.
FetchTargetCurrencyRatesPlain(resp) ==
  IF resp.status = 0 THEN [err |-> "error making API request", data |-> NoRate]
  ELSE IF resp.status # 200
    THEN [err |-> "API request failed with status code", data |-> NoRate]
  ELSE IF ~resp.decodable THEN [err |-> "error decoding API response", data |-> NoRate]
  ELSE [err |-> "", data |-> resp.data]

\* Client.FetchTargetCurrencyRates: the (response, error) pair it returns.
FetchTargetCurrencyRates(resp) ==
  IF resp.status = 0 THEN [err |-> "error making API request", data |-> NoRate]
  ELSE IF resp.status = 404 THEN [err |-> "API returned 404 Not Found", data |-> NoRate]
  ELSE IF resp.status # 200
    THEN [err |-> "API request failed with status code", data |-> NoRate]
  ELSE IF ~resp.decodable THEN [err |-> "error decoding API response", data |-> NoRate]
  ELSE [err |-> "", data |-> resp.data]

\* Sequences of at most n rate entries (the data array of the batch endpoint).
RateEntries ==
  {[currency_code |-> c, date |-> d, quote |-> q] :
     c \in {"USD", "EUR"}, d \in {DateStrOf[1], BadDateStr}, q \in Quotes}

SeqsUpTo(S, n) == UNION {[1..k -> S] : k \in 0..n}

\* Outcomes of the GET of the batch endpoint.
MultiResponses ==
  {[status |-> st, decodable |-> FALSE, data |-> <<>>] : st \in {0, 200, 500}}
  \cup {[status |-> 200, decodable |-> TRUE, data |-> es] : es \in SeqsUpTo(RateEntries, MaxEntries)}

\* Client.FetchLatestRatesAll: no special case for 404.
FetchLatestRatesAll(resp) ==
  IF resp.status = 0 THEN [err |-> "error making API request", data |-> <<>>]
  ELSE IF resp.status # 200
    THEN [err |-> "API request failed with status code", data |-> <<>>]
  ELSE IF ~resp.decodable THEN [err |-> "error decoding API response", data |-> <<>>]
  ELSE [err |-> "", data |-> resp.data]

\* ---------------------------------------------------------------------------
\* The HTML source site (stock.go): what one GET and the goquery selectors yield
\* ---------------------------------------------------------------------------

StockCodes == {"1155", "5347"}

PriceTexts == {"", " 9.50 ", "10.25", "n/a"}

\* strings.TrimSpace on the price texts
TrimPrice(t) == IF t = " 9.50 " THEN "9.50" ELSE t

\* strconv.ParseFloat(t, 64): the value in 1/100000
ParseFloat(t) ==
  CASE t = "9.50" -> [err |-> FALSE, v |-> 950000]
    [] t = "10.25" -> [err |-> FALSE, v |-> 1025000]
    [] OTHER -> [err |-> TRUE, v |-> 0]

\* status 0 is a transport failure; parsable: goquery accepts the body; found: a
\* "Last Price" container with a <p><strong> holds priceStr.
PricePages ==
  {[status |-> st, parsable |-> FALSE, found |-> FALSE, priceStr |-> ""] : st \in {0, 200, 503}}
  \cup {[status |-> 200, parsable |-> TRUE, found |-> FALSE, priceStr |-> ""]}
  \cup {[status |-> 200, parsable |-> TRUE, found |-> TRUE, priceStr |-> t] : t \in PriceTexts}

NoProfile == [companyName |-> "", countryCode |-> "", sector |-> "", subsector |-> ""]

\* The four texts the selectors extract from a profile page.
ProfileTexts ==
  {NoProfile,
   [companyName |-> "", countryCode |-> "MY", sector |-> "Finance", subsector |-> "Banking"],
   [companyName |-> "MAYBANK", countryCode |-> "", sector |-> "", subsector |-> ""],
   [companyName |-> "MAYBANK", countryCode |-> "MY", sector |-> "", subsector |-> "Banking"],
   [companyName |-> "MALAYAN BANKING", countryCode |-> "MY", sector |-> "Finance",
    subsector |-> "Banking"]}

ProfilePages ==
  {[status |-> st, parsable |-> FALSE, texts |-> NoProfile] : st \in {0, 200, 503}}
  \cup {[status |-> 200, parsable |-> TRUE, texts |-> t] : t \in ProfileTexts}

\* ---------------------------------------------------------------------------
\* The dispatcher's input: a line is a sequence of words and blanks
\* ---------------------------------------------------------------------------

Space == " "

RECURSIVE TrimLeft(_)
TrimLeft(l) == IF l # <<>> /\ Head(l) = Space THEN TrimLeft(Tail(l)) ELSE l

RECURSIVE TrimRight(_)
TrimRight(l) ==
  IF l # <<>> /\ l[Len(l)] = Space THEN TrimRight(SubSeq(l, 1, Len(l) - 1)) ELSE l

\* strings.TrimSpace(input)
TrimSpace(l) == TrimRight(TrimLeft(l))

\* strings.Fields(cleanInput)
Fields(l) == SelectSeq(l, LAMBDA w : w # Space)

\* The lines an operator may type.
Lines ==
  {<<>>, <<Space>>, <<"exit">>, <<Space, "quit", Space>>, <<"exit", Space, "now">>,
   <<Space, "quit", Space, "now">>,
   <<"bogus">>, <<"help">>, <<"testing", Space, "x">>,
   <<"fx:fetch_all">>,
   <<"fx:fetch:range", Space, "usd", Space, DateStrOf[1]>>,
   <<"stock:fetch:price">>, <<"stock:fetch:profile">>,
   <<"stock:fetch:price_all">>, <<"stock:fetch:price_all", Space, "x">>,
   <<"stock:fetch:profile_all">>, <<"stock:fetch:profile_all", Space, "x">>}
  \cup {<<"fx:fetch:range", Space, "us", Space, DateStrOf[1], Space, DateStrOf[1]>>}
  \cup {<<"fx:fetch:range", Space, "usd", Space, a, Space, b>> :
          a \in WireDates, b \in WireDates}
  \cup {<<n, Space, c>> : n \in {"stock:fetch:price", "stock:fetch:profile"}, c \in StockCodes}

\* cmds.register(...) in runCli
Registered ==
  {"help", "login", "register", "reset", "users", "testing", "fx:fetch_all",
   "fx:fetch:range", "stock:fetch:price", "stock:fetch:price_all", "stock:fetch:profile",
   "stock:fetch:profile_all"}

\* handlerHelp and the stub handlers: they return nil and touch nothing.
Stubs == {"help", "login", "register", "reset", "users", "testing"}

\* command{Name: parts[0], Args: parts[1:]}
CommandOf(line) ==
  LET parts == Fields(TrimSpace(line))
  IN [Name |-> Head(parts), Args |-> Tail(parts)]

IsBlank(line) == TrimSpace(line) = <<>>
\* Faulty variant of the exit test: a line that only starts with exit or quit passes.
IsExitPrefix(line) ==
  TrimSpace(line) # <<>> /\ Head(TrimSpace(line)) \in {"exit", "quit"}

IsExit(line) == TrimSpace(line) = <<"exit">> \/ TrimSpace(line) = <<"quit">>
IsCommand(line) == ~IsBlank(line) /\ ~IsExit(line)

NoCommand == [Name |-> "", Args |-> <<>>]
NoCounts == [successfulFetches |-> 0, failedFetches |-> 0, successfulStores |-> 0,
             failedStores |-> 0]
\* Bookkeeping of one invocation: network calls issued, upsert calls issued, upserts
\* applied, 404 answers, other fetch failures, the units attempted in order.
NoInv == [net |-> 0, upsertCalls |-> 0, upserts |-> 0, notFound |-> 0, otherFail |-> 0,
          attempted |-> <<>>]

\* ---------------------------------------------------------------------------
\* Ingestion handlers: the parts that are pure functions of their inputs
\* ---------------------------------------------------------------------------

\* Faulty variant of the date loop: each day is put in front of the slice, not appended.
RECURSIVE DatesFromDescending(_, _)
DatesFromDescending(d, end) ==
  IF d > end THEN <<>> ELSE DatesFromDescending(d + 1, end) \o <<FormatDate(d)>>

\* Faulty variant of the date loop: d.Before(end) as its condition, the end day left out.
RECURSIVE DatesFromExclusive(_, _)
DatesFromExclusive(d, end) ==
  IF d >= end THEN <<>> ELSE <<FormatDate(d)>> \o DatesFromExclusive(d + 1, end)

\* for d := start; !d.After(end); d = d.AddDate(0, 0, 1) { dates = append(dates, d.Format(..)) }
RECURSIVE DatesFrom(_, _)
DatesFrom(d, end) == IF d > end THEN <<>> ELSE <<FormatDate(d)>> \o DatesFrom(d + 1, end)

\* end.Before(start)
EndBeforeStart(start, end) == end < start

\* Faulty variant of the validation: a reversed range is put in order instead of
\* being rejected.
FxRangeCheckSwapping(c, conf) ==
  IF conf.FXAPIBaseURL = ""
    THEN [err |-> "FX_API_BASE_URL is not configured", dates |-> <<>>]
  ELSE IF Len(c.Args) # 3 THEN [err |-> "usage", dates |-> <<>>]
  ELSE LET start == ParseDate(c.Args[2])
           end == ParseDate(c.Args[3])
           lo == IF end.day < start.day THEN end.day ELSE start.day
           hi == IF end.day < start.day THEN start.day ELSE end.day
       IN IF Len(ToUpper(c.Args[1])) # 3
            THEN [err |-> "invalid currency code format", dates |-> <<>>]
          ELSE IF start.err THEN [err |-> "failed to parse start date", dates |-> <<>>]
          ELSE IF end.err THEN [err |-> "failed to parse end date", dates |-> <<>>]
          ELSE [err |-> "", dates |-> DatesFrom(lo, hi)]

\* handlerFxFetchRange up to the creation of the client: the error it returns ("" for
\* none) and the dates slice.
FxRangeCheck(c, conf) ==
  IF conf.FXAPIBaseURL = ""
    THEN [err |-> "FX_API_BASE_URL is not configured", dates |-> <<>>]
  ELSE IF Len(c.Args) # 3 THEN [err |-> "usage", dates |-> <<>>]
  ELSE LET targetCurrency == ToUpper(c.Args[1])
           start == ParseDate(c.Args[2])
           end == ParseDate(c.Args[3])
       IN IF Len(targetCurrency) # 3
            THEN [err |-> "invalid currency code format", dates |-> <<>>]
          ELSE IF start.err THEN [err |-> "failed to parse start date", dates |-> <<>>]
          ELSE IF end.err THEN [err |-> "failed to parse end date", dates |-> <<>>]
          ELSE IF EndBeforeStart(start.day, end.day)
            THEN [err |-> "end date must be after start date", dates |-> <<>>]
          ELSE IF Len(DatesFrom(start.day, end.day)) = 0
            THEN [err |-> "no dates found in the specified range", dates |-> <<>>]
          ELSE [err |-> "", dates |-> DatesFrom(start.day, end.day)]

\* database.UpsertForeignExchangeParams built by the FX handlers
FxParams(code, quote, day, now) ==
  [id |-> now, currency_code |-> code,
   buying_rate |-> Fmt4(quote.buying_rate),
   selling_rate |-> SprintDec4(quote.selling_rate),
   middle_rate |-> Fmt4(quote.middle_rate),
   created_at |-> now, date |-> day]

\* Faulty variant of the price handler: no check that the price container was found,
\* so an absent or empty value reaches strconv.ParseFloat.
StockFetchPriceUnchecked(code, page, dbOk, day, now, comp, store) ==
  LET p == ParseFloat(TrimPrice(page.priceStr))
      params == [stock_code |-> code, price_date |-> day,
                 closing_price |-> Fmt4(p.v), source_url |-> "price/" \o code]
      fail(e) == [err |-> e, called |-> FALSE, store |-> store, params |-> params]
  IN IF page.status = 0 THEN fail("failed to fetch URL")
     ELSE IF page.status # 200 THEN fail("received non-200 status code")
     ELSE IF ~page.parsable THEN fail("failed to parse HTML")
     ELSE IF p.err THEN fail("failed to parse price string")
     ELSE IF ~dbOk \/ ~PriceForeignKeyOk(comp, code)
       THEN [err |-> "failed to upsert stock price", called |-> TRUE, store |-> store,
             params |-> params]
     ELSE [err |-> "", called |-> TRUE, store |-> UpsertStockPrice(store, params, now),
           params |-> params]

\* handlerStockFetchPrice after its argument check, for one fetched page: the error
\* it returns ("" for nil), whether it called the upsert, and the table afterwards.
StockFetchPrice(code, page, dbOk, day, now, comp, store) ==
  LET p == ParseFloat(TrimPrice(page.priceStr))
      params == [stock_code |-> code, price_date |-> day,
                 closing_price |-> Fmt4(p.v), source_url |-> "price/" \o code]
      fail(e) == [err |-> e, called |-> FALSE, store |-> store, params |-> params]
  IN IF page.status = 0 THEN fail("failed to fetch URL")
     ELSE IF page.status # 200 THEN fail("received non-200 status code")
     ELSE IF ~page.parsable THEN fail("failed to parse HTML")
     ELSE IF ~page.found \/ page.priceStr = ""
       THEN fail("could not find 'Last Price' element or value")
     ELSE IF p.err THEN fail("failed to parse price string")
     ELSE IF ~dbOk \/ ~PriceForeignKeyOk(comp, code)
       THEN [err |-> "failed to upsert stock price", called |-> TRUE, store |-> store,
             params |-> params]
     ELSE [err |-> "", called |-> TRUE, store |-> UpsertStockPrice(store, params, now),
           params |-> params]

\* Faulty variant of the profile handler: the row is upserted before the company
\* name is checked.
StockFetchProfileEager(code, page, dbOk, now, store) ==
  LET fail(e) == [err |-> e, called |-> FALSE, store |-> store]
      t == page.texts
      written == UpsertCompany(store,
                   [stock_code |-> code, company_name |-> t.companyName,
                    country_code |-> NullString(t.countryCode),
                    sector |-> NullString(t.sector),
                    subsector |-> NullString(t.subsector),
                    listing_date |-> Null,
                    profile_source_url |-> "profile/" \o code], now)
  IN IF page.status = 0 THEN fail("failed to fetch URL")
     ELSE IF page.status # 200 THEN fail("received non-200 status code")
     ELSE IF ~page.parsable THEN fail("failed to parse HTML")
     ELSE IF t.companyName = ""
       THEN [err |-> "failed to extract company name", called |-> FALSE,
             store |-> written]
     ELSE IF ~dbOk
       THEN [err |-> "failed to upsert company profile", called |-> TRUE, store |-> store]
     ELSE [err |-> "", called |-> TRUE, store |-> written]

\* handlerStockFetchProfile after its argument check, for one fetched page.
StockFetchProfile(code, page, dbOk, now, store) ==
  LET fail(e) == [err |-> e, called |-> FALSE, store |-> store]
      t == page.texts
  IN IF page.status = 0 THEN fail("failed to fetch URL")
     ELSE IF page.status # 200 THEN fail("received non-200 status code")
     ELSE IF ~page.parsable THEN fail("failed to parse HTML")
     ELSE IF t.companyName = "" THEN fail("failed to extract company name")
     ELSE IF ~dbOk
       THEN [err |-> "failed to upsert company profile", called |-> TRUE, store |-> store]
     ELSE [err |-> "", called |-> TRUE,
           store |-> UpsertCompany(store,
                       [stock_code |-> code, company_name |-> t.companyName,
                        country_code |-> NullString(t.countryCode),
                        sector |-> NullString(t.sector),
                        subsector |-> NullString(t.subsector),
                        listing_date |-> Null,
                        profile_source_url |-> "profile/" \o code], now)]

\* ---------------------------------------------------------------------------
\* History of the upserts applied (used only to state properties of the store)
\* ---------------------------------------------------------------------------

FxKeys == {"USD", "EUR"} \X Days
PriceKeys == StockCodes \X Days
NoWrite == [stamp |-> -1]

\* The values and the time of a rate upsert with parameters p.
FxWrite(p) ==
  [stamp |-> p.created_at, buying_rate |-> p.buying_rate,
   selling_rate |-> p.selling_rate, middle_rate |-> p.middle_rate]

\* The values and the time of a price upsert with parameters p executed at `now`.
PriceWrite(p, now) ==
  [stamp |-> now, closing_price |-> p.closing_price, source_url |-> p.source_url]

\* The history after handlerStockFetchPrice returned res.
PriceWrittenAfter(res, now) ==
  IF res.called /\ res.err = ""
    THEN [priceWritten EXCEPT ![<<res.params.stock_code, res.params.price_date>>] =
            PriceWrite(res.params, now)]
    ELSE priceWritten

\* ---------------------------------------------------------------------------
\* The process
\* ---------------------------------------------------------------------------

Configs ==
  [FXAPIBaseURL : {"", "https://api.bnm.gov.my/public/exchange-rate"},
   StockList : SeqsUpTo(StockCodes, MaxStocks)]

\* What earlier runs of the program may have left in the database.
SeedFx ==
  {[id |-> 0, currency_code |-> "USD", buying_rate |-> 43000, selling_rate |-> 43200,
    middle_rate |-> 43100, created_at |-> 0, date |-> 1]}
SeedCompanies ==
  {[stock_code |-> "1155", company_name |-> "MAYBANK", country_code |-> Null,
    sector |-> Null, subsector |-> Null, listing_date |-> Null,
    profile_source_url |-> "profile/1155", profile_last_scraped_at |-> 0,
    created_at |-> 0, updated_at |-> 0]}
SeedPrices ==
  {[id |-> 0, stock_code |-> "1155", price_date |-> 1, closing_price |-> 90000,
    source_url |-> "price/1155", extracted_at |-> 0]}

\* No request has been answered yet.
NoRequest == [method |-> "", code |-> "", start_date |-> "", end_date |-> ""]
NoResponse == [path |-> "", status |-> 0, body |-> <<>>, queried |-> FALSE]

\* input, err before the first read.
NoInput == [err |-> FALSE, line |-> <<>>]

\* The state once main has started both goroutines; the operator will type at most
\* `lines` lines.
InitWith(lines) ==
  /\ mainPc = "select" /\ srvPc = "recv" /\ cliPc = "read"
  /\ chanBuf = 0 /\ chanClosed = FALSE
  /\ sigPending = FALSE /\ sigTaken = FALSE
  /\ ctxCancelled = FALSE
  /\ wg = WgParties
  /\ panicked = FALSE
  /\ linesLeft = lines
  /\ input = NoInput
  /\ api = NoResponse /\ asked = NoRequest
  /\ cfg \in Configs
  /\ cmd = NoCommand
  /\ last = [name |-> "", result |-> "", notice |-> FALSE]
  /\ dates = <<>> /\ rates = <<>> /\ idx = 1
  /\ counts = NoCounts /\ inv = NoInv
  /\ \/ fxStore = {} /\ priceStore = {} /\ companies = {}
     \/ fxStore = SeedFx /\ priceStore = SeedPrices /\ companies = SeedCompanies
  /\ clock = 0 /\ today = 1
  /\ fxWritten = [k \in FxKeys |->
                    IF \E r \in fxStore : <<r.currency_code, r.date>> = k
                      THEN LET r == CHOOSE x \in fxStore : <<x.currency_code, x.date>> = k
                           IN FxWrite(r)
                      ELSE NoWrite]
  /\ priceWritten = [k \in PriceKeys |->
                       IF \E r \in priceStore : <<r.stock_code, r.price_date>> = k
                         THEN LET r == CHOOSE x \in priceStore :
                                         <<x.stock_code, x.price_date>> = k
                              IN PriceWrite(r, r.extracted_at)
                         ELSE NoWrite]

Init == InitWith(MaxLines)

\* The process still runs: no panic, and main has not returned.
Alive == ~panicked /\ mainPc # "done"

\* ---- runCli: the input loop ----

CliIdle == Alive /\ cliPc = "read"

\* Faulty variant of the read failure: runCli leaves without its deferred notification.
CliReadErrorSilent ==
  /\ CliIdle
  /\ cliPc' = "wgDone"
  /\ input' = [err |-> TRUE, line |-> <<>>]
  /\ UNCHANGED <<lifeVars, linesLeft, cmd, last, dates, rates, idx, counts, inv, dbVars, cfg, api, asked>>

\* scanner.ReadString fails (EOF or a read error): return.
CliReadError ==
  /\ CliIdle
  /\ cliPc' = "deferSelect"
  /\ input' = [err |-> TRUE, line |-> <<>>]
  /\ UNCHANGED <<lifeVars, linesLeft, cmd, last, dates, rates, idx, counts, inv, dbVars, cfg, api, asked>>

\* cleanInput == "": continue.
CliBlank(line) ==
  /\ CliIdle /\ linesLeft > 0 /\ IsBlank(line)
  /\ linesLeft' = linesLeft - 1
  /\ input' = [err |-> FALSE, line |-> line]
  /\ UNCHANGED <<lifeVars, cliPc, cmd, last, dates, rates, idx, counts, inv, dbVars, cfg, api, asked>>

\* cleanInput == "exit" || cleanInput == "quit": return.
CliExit(line) ==
  /\ CliIdle /\ linesLeft > 0 /\ IsExit(line)
  /\ linesLeft' = linesLeft - 1
  /\ input' = [err |-> FALSE, line |-> line]
  /\ cliPc' = "deferSelect"
  /\ UNCHANGED <<lifeVars, cmd, last, dates, rates, idx, counts, inv, dbVars, cfg, api, asked>>

\* commands.run: the lookup in registeredCommands
Lookup(name) == name \in Registered

\* A line is read and dispatched: what every dispatch does before the handler runs.
Dispatch(line, name) ==
  /\ CliIdle /\ linesLeft > 0 /\ IsCommand(line)
  /\ CommandOf(line).Name = name
  /\ linesLeft' = linesLeft - 1
  /\ input' = [err |-> FALSE, line |-> line]
  /\ cmd' = CommandOf(line)

\* Return of handler `name` to the loop with the given error ("ok" for nil).
Return(name, result, notice) ==
  /\ cliPc' = "read"
  /\ last' = [name |-> name, result |-> result, notice |-> notice]

Running(name) == [name |-> name, result |-> "running", notice |-> FALSE]

\* Faulty variant of the failed lookup: an unregistered name falls back to the help
\* handler, which returns nil.
CliRunUnknownAsHelp(line) ==
  /\ Dispatch(line, CommandOf(line).Name)
  /\ ~Lookup(CommandOf(line).Name)
  /\ Return(CommandOf(line).Name, "ok", FALSE)
  /\ inv' = NoInv /\ counts' = NoCounts /\ dates' = <<>> /\ rates' = <<>> /\ idx' = 1
  /\ UNCHANGED <<lifeVars, dbVars, cfg, api, asked>>

\* commands.run with an unregistered name: "command not found", printed by the loop.
CliRunUnknown(line) ==
  /\ Dispatch(line, CommandOf(line).Name)
  /\ ~Lookup(CommandOf(line).Name)
  /\ Return(CommandOf(line).Name, "command not found", FALSE)
  /\ inv' = NoInv /\ counts' = NoCounts /\ dates' = <<>> /\ rates' = <<>> /\ idx' = 1
  /\ UNCHANGED <<lifeVars, dbVars, cfg, api, asked>>

\* help and the stub handlers.
CliRunStub(line) ==
  /\ Dispatch(line, CommandOf(line).Name)
  /\ Lookup(CommandOf(line).Name) /\ CommandOf(line).Name \in Stubs
  /\ Return(CommandOf(line).Name, "ok", FALSE)
  /\ inv' = NoInv /\ counts' = NoCounts /\ dates' = <<>> /\ rates' = <<>> /\ idx' = 1
  /\ UNCHANGED <<lifeVars, dbVars, cfg, api, asked>>

\* ---- handlerFxFetchRange ----

\* The line is dispatched to handlerFxFetchRange, which validates and builds dates.
FxFetchRangeStart(line) ==
  /\ Dispatch(line, "fx:fetch:range")
  /\ LET chk == FxRangeCheck(CommandOf(line), cfg)
     IN /\ dates' = chk.dates
        /\ IF chk.err # ""
             THEN Return("fx:fetch:range", chk.err, FALSE)
             ELSE cliPc' = "fxRange" /\ last' = Running("fx:fetch:range")
  /\ inv' = NoInv /\ counts' = NoCounts /\ rates' = <<>> /\ idx' = 1
  /\ UNCHANGED <<lifeVars, dbVars, cfg, api, asked>>

\* Faulty variant of the iteration: a response whose date does not parse is not
\* counted as a failed store.
FxFetchRangeDayUncounted(resp, dbOk) ==
  /\ Alive /\ cliPc = "fxRange" /\ idx <= Len(dates)
  /\ LET dateStr == dates[idx]
         targetCurrency == ToUpper(cmd.Args[1])
         r == FetchTargetCurrencyRates(resp)
         parsedDate == ParseDate(r.data.date)
         seen == [inv EXCEPT !.net = @ + 1,
                             !.attempted = Append(@, [kind |-> "rate", unit |-> dateStr])]
     IN IF r.err # ""
          THEN /\ counts' = [counts EXCEPT !.failedFetches = @ + 1]
               /\ inv' = [seen EXCEPT
                            !.notFound = IF resp.status = 404 THEN @ + 1 ELSE @,
                            !.otherFail = IF resp.status = 404 THEN @ ELSE @ + 1]
               /\ UNCHANGED <<fxStore, clock, fxWritten>>
        ELSE IF parsedDate.err
          THEN /\ counts' = [counts EXCEPT !.successfulFetches = @ + 1]
               /\ inv' = seen
               /\ UNCHANGED <<fxStore, clock, fxWritten>>
        ELSE /\ clock' = clock + 1
             /\ IF dbOk
                  THEN /\ fxStore' = UpsertForeignExchange(fxStore,
                                       FxParams(targetCurrency, r.data.quote,
                                                parsedDate.day, clock + 1))
                       /\ fxWritten' = [fxWritten EXCEPT
                            ![<<targetCurrency, parsedDate.day>>] =
                              FxWrite(FxParams(targetCurrency, r.data.quote,
                                               parsedDate.day, clock + 1))]
                       /\ counts' = [counts EXCEPT !.successfulFetches = @ + 1,
                                                   !.successfulStores = @ + 1]
                       /\ inv' = [seen EXCEPT !.upsertCalls = @ + 1, !.upserts = @ + 1]
                  ELSE /\ UNCHANGED <<fxStore, fxWritten>>
                       /\ counts' = [counts EXCEPT !.successfulFetches = @ + 1,
                                                   !.failedStores = @ + 1]
                       /\ inv' = [seen EXCEPT !.upsertCalls = @ + 1]
  /\ idx' = idx + 1
  /\ UNCHANGED <<lifeVars, cliPc, linesLeft, input, cmd, last, dates, rates, priceStore,
                 companies, today, priceWritten, cfg, api, asked>>

\* One iteration of "for _, dateStr := range dates": fetch, parse, upsert, count.
FxFetchRangeDay(resp, dbOk) ==
  /\ Alive /\ cliPc = "fxRange" /\ idx <= Len(dates)
  /\ LET dateStr == dates[idx]
         targetCurrency == ToUpper(cmd.Args[1])
         r == FetchTargetCurrencyRates(resp)
         parsedDate == ParseDate(r.data.date)
         seen == [inv EXCEPT !.net = @ + 1,
                             !.attempted = Append(@, [kind |-> "rate", unit |-> dateStr])]
     IN IF r.err # ""
          THEN /\ counts' = [counts EXCEPT !.failedFetches = @ + 1]
               /\ inv' = [seen EXCEPT
                            !.notFound = IF resp.status = 404 THEN @ + 1 ELSE @,
                            !.otherFail = IF resp.status = 404 THEN @ ELSE @ + 1]
               /\ UNCHANGED <<fxStore, clock, fxWritten>>
        ELSE IF parsedDate.err
          THEN /\ counts' = [counts EXCEPT !.successfulFetches = @ + 1,
                                           !.failedStores = @ + 1]
               /\ inv' = seen
               /\ UNCHANGED <<fxStore, clock, fxWritten>>
        ELSE /\ clock' = clock + 1
             /\ IF dbOk
                  THEN /\ fxStore' = UpsertForeignExchange(fxStore,
                                       FxParams(targetCurrency, r.data.quote,
                                                parsedDate.day, clock + 1))
                       /\ fxWritten' = [fxWritten EXCEPT
                            ![<<targetCurrency, parsedDate.day>>] =
                              FxWrite(FxParams(targetCurrency, r.data.quote,
                                               parsedDate.day, clock + 1))]
                       /\ counts' = [counts EXCEPT !.successfulFetches = @ + 1,
                                                   !.successfulStores = @ + 1]
                       /\ inv' = [seen EXCEPT !.upsertCalls = @ + 1, !.upserts = @ + 1]
                  ELSE /\ UNCHANGED <<fxStore, fxWritten>>
                       /\ counts' = [counts EXCEPT !.successfulFetches = @ + 1,
                                                   !.failedStores = @ + 1]
                       /\ inv' = [seen EXCEPT !.upsertCalls = @ + 1]
  /\ idx' = idx + 1
  /\ UNCHANGED <<lifeVars, cliPc, linesLeft, input, cmd, last, dates, rates, priceStore,
                 companies, today, priceWritten, cfg, api, asked>>

\* Faulty variant of the end of the loop: the loop also ends once the context is
\* cancelled.
FxFetchRangeDoneOnCancel ==
  /\ Alive /\ cliPc = "fxRange" /\ (idx > Len(dates) \/ ctxCancelled)
  /\ Return("fx:fetch:range", "ok", FALSE)
  /\ UNCHANGED <<lifeVars, linesLeft, input, cmd, dates, rates, idx, counts, inv, dbVars, cfg, api, asked>>

\* The loop is over: log the summary, return nil.
FxFetchRangeDone ==
  /\ Alive /\ cliPc = "fxRange" /\ idx > Len(dates)
  /\ Return("fx:fetch:range", "ok", FALSE)
  /\ UNCHANGED <<lifeVars, linesLeft, input, cmd, dates, rates, idx, counts, inv, dbVars, cfg, api, asked>>

\* ---- handlerFxFetchAll ----

\* The line is dispatched to handlerFxFetchAll, which checks the configuration.
FxFetchAllStart(line) ==
  /\ Dispatch(line, "fx:fetch_all")
  /\ IF cfg.FXAPIBaseURL = ""
       THEN Return("fx:fetch_all", "FX_API_BASE_URL is not configured", FALSE)
       ELSE cliPc' = "fxAllFetch" /\ last' = Running("fx:fetch_all")
  /\ inv' = NoInv /\ counts' = NoCounts /\ dates' = <<>> /\ rates' = <<>> /\ idx' = 1
  /\ UNCHANGED <<lifeVars, dbVars, cfg, api, asked>>

\* client.FetchLatestRatesAll() returns.
FxFetchAllFetch(resp) ==
  /\ Alive /\ cliPc = "fxAllFetch"
  /\ LET r == FetchLatestRatesAll(resp)
     IN /\ rates' = r.data
        /\ IF r.err # ""
             THEN Return("fx:fetch_all", "failed to fetch FX rates", FALSE)
             ELSE cliPc' = "fxAll" /\ UNCHANGED last
  /\ inv' = [inv EXCEPT !.net = @ + 1]
  /\ UNCHANGED <<lifeVars, linesLeft, input, cmd, dates, idx, counts, dbVars, cfg, api, asked>>

\* One iteration of "for _, rate := range rates.Data".
FxFetchAllEntry(dbOk) ==
  /\ Alive /\ cliPc = "fxAll" /\ idx <= Len(rates)
  /\ LET rate == rates[idx]
         date == ParseDate(rate.date)
         seen == [inv EXCEPT !.attempted =
                    Append(@, [kind |-> "entry", unit |-> rate.currency_code])]
     IN IF date.err
          THEN /\ Return("fx:fetch_all", "failed to parse date", FALSE)
               /\ inv' = seen
               /\ UNCHANGED <<fxStore, clock, idx, fxWritten>>
          ELSE /\ clock' = clock + 1
               /\ idx' = idx + 1
               /\ UNCHANGED <<cliPc, last>>
               /\ IF dbOk
                    THEN /\ fxStore' = UpsertForeignExchange(fxStore,
                                         FxParams(rate.currency_code, rate.quote,
                                                  date.day, clock + 1))
                         /\ fxWritten' = [fxWritten EXCEPT
                              ![<<rate.currency_code, date.day>>] =
                                FxWrite(FxParams(rate.currency_code, rate.quote,
                                                 date.day, clock + 1))]
                         /\ inv' = [seen EXCEPT !.upsertCalls = @ + 1, !.upserts = @ + 1]
                    ELSE /\ UNCHANGED <<fxStore, fxWritten>>
                         /\ inv' = [seen EXCEPT !.upsertCalls = @ + 1]
  /\ UNCHANGED <<lifeVars, linesLeft, input, cmd, dates, rates, counts, priceStore, companies,
                 today, priceWritten, cfg, api, asked>>

\* The loop is over: return nil.
FxFetchAllDone ==
  /\ Alive /\ cliPc = "fxAll" /\ idx > Len(rates)
  /\ Return("fx:fetch_all", "ok", FALSE)
  /\ UNCHANGED <<lifeVars, linesLeft, input, cmd, dates, rates, idx, counts, inv, dbVars, cfg, api, asked>>

\* ---- the stock handlers ----

\* time.Now().UTC() as a calendar day: today or, once midnight has passed, tomorrow.
NowDays == {d \in Days : d = today \/ d = today + 1}

\* Bookkeeping of one price or profile unit.
UnitAfter(before, kind, code, res) ==
  [before EXCEPT !.net = @ + 1,
                 !.attempted = Append(@, [kind |-> kind, unit |-> code]),
                 !.upsertCalls = IF res.called THEN @ + 1 ELSE @,
                 !.upserts = IF res.called /\ res.err = "" THEN @ + 1 ELSE @]

\* The bookkeeping after one more unit of the running invocation.
Unit(kind, code, res) == UnitAfter(inv, kind, code, res)

OkOr(err) == IF err = "" THEN "ok" ELSE err

\* stock:fetch:price <stock_code>
StockPriceCmd(line, page, dbOk, day) ==
  /\ Dispatch(line, "stock:fetch:price")
  /\ day \in NowDays
  /\ LET c == CommandOf(line)
     IN IF Len(c.Args) # 1
          THEN /\ Return("stock:fetch:price", "usage", FALSE)
               /\ inv' = NoInv
               /\ UNCHANGED <<priceStore, clock, today, priceWritten>>
          ELSE LET res == StockFetchPrice(c.Args[1], page, dbOk, day, clock + 1,
                                          companies, priceStore)
               IN /\ Return("stock:fetch:price", OkOr(res.err), FALSE)
                  /\ inv' = UnitAfter(NoInv, "price", c.Args[1], res)
                  /\ priceStore' = res.store
                  /\ priceWritten' = PriceWrittenAfter(res, clock + 1)
                  /\ clock' = IF res.called THEN clock + 1 ELSE clock
                  /\ today' = IF res.called THEN day ELSE today
  /\ counts' = NoCounts /\ dates' = <<>> /\ rates' = <<>> /\ idx' = 1
  /\ UNCHANGED <<lifeVars, fxStore, companies, fxWritten, cfg, api, asked>>

\* stock:fetch:profile <stock_code>
StockProfileCmd(line, page, dbOk) ==
  /\ Dispatch(line, "stock:fetch:profile")
  /\ LET c == CommandOf(line)
     IN IF Len(c.Args) # 1
          THEN /\ Return("stock:fetch:profile", "usage", FALSE)
               /\ inv' = NoInv
               /\ UNCHANGED <<companies, clock>>
          ELSE LET res == StockFetchProfile(c.Args[1], page, dbOk, clock + 1, companies)
               IN /\ Return("stock:fetch:profile", OkOr(res.err), FALSE)
                  /\ inv' = UnitAfter(NoInv, "profile", c.Args[1], res)
                  /\ companies' = res.store
                  /\ clock' = IF res.called THEN clock + 1 ELSE clock
  /\ counts' = NoCounts /\ dates' = <<>> /\ rates' = <<>> /\ idx' = 1
  /\ UNCHANGED <<lifeVars, fxStore, priceStore, today, fxWritten, priceWritten, cfg, api, asked>>

\* stock:fetch:price_all is dispatched: handlerStockFetchPriceAll checks its arguments.
StockPriceAllStart(line) ==
  /\ Dispatch(line, "stock:fetch:price_all")
  /\ IF Len(CommandOf(line).Args) # 0
       THEN Return("stock:fetch:price_all", "usage", FALSE)
       ELSE cliPc' = "priceAll" /\ last' = Running("stock:fetch:price_all")
  /\ inv' = NoInv /\ counts' = NoCounts /\ dates' = <<>> /\ rates' = <<>> /\ idx' = 1
  /\ UNCHANGED <<lifeVars, dbVars, cfg, api, asked>>

\* Faulty variant of the iteration: the error of one stock code is returned, which
\* ends the batch.
StockPriceAllUnitAborting(page, dbOk, day) ==
  /\ Alive /\ cliPc = "priceAll" /\ idx <= Len(cfg.StockList)
  /\ day \in NowDays
  /\ LET res == StockFetchPrice(cfg.StockList[idx], page, dbOk, day, clock + 1,
                                companies, priceStore)
     IN /\ inv' = Unit("price", cfg.StockList[idx], res)
        /\ priceStore' = res.store
        /\ priceWritten' = PriceWrittenAfter(res, clock + 1)
        /\ clock' = IF res.called THEN clock + 1 ELSE clock
        /\ today' = IF res.called THEN day ELSE today
        /\ IF res.err # ""
             THEN Return("stock:fetch:price_all", res.err, FALSE)
             ELSE UNCHANGED <<cliPc, last>>
  /\ idx' = idx + 1
  /\ UNCHANGED <<lifeVars, linesLeft, input, cmd, dates, rates, counts, fxStore,
                 companies, fxWritten, cfg, api, asked>>

\* One iteration of "for _, stockCode := range stockCodes": the error is only logged.
StockPriceAllUnit(page, dbOk, day) ==
  /\ Alive /\ cliPc = "priceAll" /\ idx <= Len(cfg.StockList)
  /\ day \in NowDays
  /\ LET res == StockFetchPrice(cfg.StockList[idx], page, dbOk, day, clock + 1,
                                companies, priceStore)
     IN /\ inv' = Unit("price", cfg.StockList[idx], res)
        /\ priceStore' = res.store
        /\ priceWritten' = PriceWrittenAfter(res, clock + 1)
        /\ clock' = IF res.called THEN clock + 1 ELSE clock
        /\ today' = IF res.called THEN day ELSE today
  /\ idx' = idx + 1
  /\ UNCHANGED <<lifeVars, cliPc, linesLeft, input, cmd, last, dates, rates, counts, fxStore,
                 companies, fxWritten, cfg, api, asked>>

\* The loop is over: return nil.
StockPriceAllDone ==
  /\ Alive /\ cliPc = "priceAll" /\ idx > Len(cfg.StockList)
  /\ Return("stock:fetch:price_all", "ok", FALSE)
  /\ UNCHANGED <<lifeVars, linesLeft, input, cmd, dates, rates, idx, counts, inv, dbVars, cfg, api, asked>>

\* stock:fetch:profile_all is dispatched: handlerStockFetchPriceAllAndProfiles checks
\* its arguments and the configured list.
StockProfileAllStart(line) ==
  /\ Dispatch(line, "stock:fetch:profile_all")
  /\ IF Len(CommandOf(line).Args) # 0
       THEN Return("stock:fetch:profile_all", "usage", FALSE)
     ELSE IF Len(cfg.StockList) = 0
       THEN Return("stock:fetch:profile_all", "ok", TRUE)
     ELSE cliPc' = "profAllProfile" /\ last' = Running("stock:fetch:profile_all")
  /\ inv' = NoInv /\ counts' = NoCounts /\ dates' = <<>> /\ rates' = <<>> /\ idx' = 1
  /\ UNCHANGED <<lifeVars, dbVars, cfg, api, asked>>

\* Faulty variant of the profile step: when the profile fails the price fetch of that
\* stock code is skipped.
StockProfileAllProfileSkipping(page, dbOk) ==
  /\ Alive /\ cliPc = "profAllProfile" /\ idx <= Len(cfg.StockList)
  /\ LET res == StockFetchProfile(cfg.StockList[idx], page, dbOk, clock + 1, companies)
     IN /\ inv' = Unit("profile", cfg.StockList[idx], res)
        /\ companies' = res.store
        /\ clock' = IF res.called THEN clock + 1 ELSE clock
        /\ cliPc' = IF res.err = "" THEN "profAllPrice" ELSE "profAllSleep"
  /\ UNCHANGED <<lifeVars, linesLeft, input, cmd, last, dates, rates, idx, counts, fxStore,
                 priceStore, today, fxWritten, priceWritten, cfg, api, asked>>

\* handlerStockFetchProfile for the current stock code: the error is only logged.
StockProfileAllProfile(page, dbOk) ==
  /\ Alive /\ cliPc = "profAllProfile" /\ idx <= Len(cfg.StockList)
  /\ LET res == StockFetchProfile(cfg.StockList[idx], page, dbOk, clock + 1, companies)
     IN /\ inv' = Unit("profile", cfg.StockList[idx], res)
        /\ companies' = res.store
        /\ clock' = IF res.called THEN clock + 1 ELSE clock
  /\ cliPc' = "profAllPrice"
  /\ UNCHANGED <<lifeVars, linesLeft, input, cmd, last, dates, rates, idx, counts, fxStore,
                 priceStore, today, fxWritten, priceWritten, cfg, api, asked>>

\* handlerStockFetchPrice for the current stock code: the error is only logged.
StockProfileAllPrice(page, dbOk, day) ==
  /\ Alive /\ cliPc = "profAllPrice"
  /\ day \in NowDays
  /\ LET res == StockFetchPrice(cfg.StockList[idx], page, dbOk, day, clock + 1,
                                companies, priceStore)
     IN /\ inv' = Unit("price", cfg.StockList[idx], res)
        /\ priceStore' = res.store
        /\ priceWritten' = PriceWrittenAfter(res, clock + 1)
        /\ clock' = IF res.called THEN clock + 1 ELSE clock
        /\ today' = IF res.called THEN day ELSE today
  /\ cliPc' = "profAllSleep"
  /\ UNCHANGED <<lifeVars, linesLeft, input, cmd, last, dates, rates, idx, counts, fxStore,
                 companies, fxWritten, cfg, api, asked>>

\* time.Sleep(500 * time.Millisecond), then the next stock code.
StockProfileAllSleep ==
  /\ Alive /\ cliPc = "profAllSleep"
  /\ inv' = [inv EXCEPT !.attempted =
               Append(@, [kind |-> "sleep", unit |-> cfg.StockList[idx]])]
  /\ idx' = idx + 1
  /\ cliPc' = "profAllProfile"
  /\ UNCHANGED <<lifeVars, linesLeft, input, cmd, last, dates, rates, counts, dbVars, cfg, api, asked>>

\* The loop is over: return nil.
StockProfileAllDone ==
  /\ Alive /\ cliPc = "profAllProfile" /\ idx > Len(cfg.StockList)
  /\ Return("stock:fetch:profile_all", "ok", FALSE)
  /\ UNCHANGED <<lifeVars, linesLeft, input, cmd, dates, rates, idx, counts, inv, dbVars, cfg, api, asked>>

\* ---- runCli: the deferred functions ----

\* select { case <-shutdownChan: ... default: ... }: a buffered value is received (and
\* so removed), a closed channel yields at once, otherwise the default branch is taken.
CliDeferSelect ==
  /\ Alive /\ cliPc = "deferSelect"
  /\ IF chanBuf > 0
       THEN chanBuf' = chanBuf - 1 /\ cliPc' = "deferCancel"
     ELSE IF chanClosed
       THEN chanBuf' = chanBuf /\ cliPc' = "deferCancel"
     ELSE chanBuf' = chanBuf /\ cliPc' = "deferClose"
  /\ UNCHANGED <<mainPc, srvPc, chanClosed, sigPending, sigTaken, ctxCancelled, wg,
                 panicked, linesLeft, input, cmd, last, dates, rates, idx, counts, inv, dbVars,
                 cfg, api, asked>>

\* close(shutdownChan): closing a closed channel panics.
CliDeferClose ==
  /\ Alive /\ cliPc = "deferClose"
  /\ IF chanClosed
       THEN panicked' = TRUE /\ UNCHANGED <<chanClosed, cliPc>>
       ELSE chanClosed' = TRUE /\ cliPc' = "deferCancel" /\ UNCHANGED panicked
  /\ UNCHANGED <<mainPc, srvPc, chanBuf, sigPending, sigTaken, ctxCancelled, wg,
                 linesLeft, input, cmd, last, dates, rates, idx, counts, inv, dbVars, cfg, api, asked>>

\* cancelFunc()
CliDeferCancel ==
  /\ Alive /\ cliPc = "deferCancel"
  /\ ctxCancelled' = TRUE
  /\ cliPc' = "wgDone"
  /\ UNCHANGED <<mainPc, srvPc, chanBuf, chanClosed, sigPending, sigTaken, wg, panicked,
                 linesLeft, input, cmd, last, dates, rates, idx, counts, inv, dbVars, cfg, api, asked>>

\* defer wg.Done()
CliWgDone ==
  /\ Alive /\ cliPc = "wgDone"
  /\ wg' = wg - 1
  /\ cliPc' = "done"
  /\ UNCHANGED <<mainPc, srvPc, chanBuf, chanClosed, sigPending, sigTaken, ctxCancelled,
                 panicked, linesLeft, input, cmd, last, dates, rates, idx, counts, inv, dbVars,
                 cfg, api, asked>>

\* ---- runHttpsServer ----

\* Faulty variant of the receive: only a buffered value wakes it, a close does not.
SrvRecvBufferedOnly ==
  /\ Alive /\ srvPc = "recv"
  /\ chanBuf > 0
  /\ chanBuf' = chanBuf - 1
  /\ srvPc' = "shutdown"
  /\ UNCHANGED <<mainPc, chanClosed, sigPending, sigTaken, ctxCancelled, wg, panicked,
                 cliVars, dbVars, cfg, api, asked>>

\* Faulty variant of the receive: it does not wait for the channel.
SrvRecvUnguarded ==
  /\ Alive /\ srvPc = "recv"
  /\ chanBuf' = IF chanBuf > 0 THEN chanBuf - 1 ELSE chanBuf
  /\ srvPc' = "shutdown"
  /\ UNCHANGED <<mainPc, chanClosed, sigPending, sigTaken, ctxCancelled, wg, panicked,
                 cliVars, dbVars, cfg, api, asked>>

\* <-shutdownChan: receives a buffered value (removing it) or observes the close.
SrvRecv ==
  /\ Alive /\ srvPc = "recv"
  /\ chanBuf > 0 \/ chanClosed
  /\ chanBuf' = IF chanBuf > 0 THEN chanBuf - 1 ELSE chanBuf
  /\ srvPc' = "shutdown"
  /\ UNCHANGED <<mainPc, chanClosed, sigPending, sigTaken, ctxCancelled, wg, panicked,
                 cliVars, dbVars, cfg, api, asked>>

\* srv.Shutdown(shutdownCtx) returns, gracefully or when the 15 s run out.
SrvShutdown ==
  /\ Alive /\ srvPc = "shutdown"
  /\ srvPc' = "return"
  /\ UNCHANGED <<mainPc, chanBuf, chanClosed, sigPending, sigTaken, ctxCancelled, wg,
                 panicked, cliVars, dbVars, cfg, api, asked>>

\* defer wg.Done()
SrvWgDone ==
  /\ Alive /\ srvPc = "return"
  /\ wg' = wg - 1
  /\ srvPc' = "done"
  /\ UNCHANGED <<mainPc, chanBuf, chanClosed, sigPending, sigTaken, ctxCancelled,
                 panicked, cliVars, dbVars, cfg, api, asked>>

\* ---- the Query API: handleGetFxRates ----

Methods == {"GET", "POST"}
QueryCodes == {"USD", "EUR"}

\* A request that passes every check of the handler.
GoodRequest ==
  [method |-> "GET", code |-> "USD", start_date |-> DateStrOf[1],
   end_date |-> DateStrOf[MaxDay]]

\* r.Method and the three query parameters of a request to /api/fx/rates: the
\* requests that pass every check (one of them with a code in lower case), and
\* requests that fail exactly one of them.
Requests ==
  [method : {"GET"}, code : QueryCodes, start_date : DateStrs, end_date : DateStrs]
  \cup {[GoodRequest EXCEPT !.method = m, !.code = c] :
          m \in Methods \ {"GET"}, c \in {"", "USD"}}
  \cup {[GoodRequest EXCEPT !.code = c] : c \in {"", "US", "usd"}}
  \cup {[GoodRequest EXCEPT !.start_date = d] : d \in {"", BadDateStr}}
  \cup {[GoodRequest EXCEPT !.end_date = d] : d \in {"", BadDateStr}}

\* len(currencyCode) on the codes the model uses
CodeLen(s) ==
  CASE s = "" -> 0
    [] s = "US" -> 2
    [] OTHER -> 3

\* The text the driver returns for a DECIMAL(10,4) column holding x/10000.
NumericText(x) == [units |-> x \div 10000, frac |-> x % 10000]

\* strconv.ParseFloat(dbRow.MiddleRate, 64): the value in 1/10000.
ParseNumeric(t) == [err |-> FALSE, v |-> t.units * 10000 + t.frac]

\* ORDER BY date ASC on a set of rows.
RECURSIVE OrderByDate(_)
OrderByDate(rows) ==
  IF rows = {} THEN <<>>
  ELSE LET r == CHOOSE x \in rows : \A y \in rows : x.date <= y.date
       IN <<r>> \o OrderByDate(rows \ {r})

\* Faulty variant of the range query: the end date is excluded.
GetForeignExchangeByCurrencyAndDateRangeHalfOpen(store, code, start, end) ==
  LET rows == OrderByDate({r \in store : r.currency_code = code
                                          /\ r.date >= start /\ r.date < end})
  IN [i \in 1..Len(rows) |->
        [Date |-> rows[i].date, MiddleRate |-> NumericText(rows[i].middle_rate)]]

\* GetForeignExchangeByCurrencyAndDateRange: SELECT date, middle_rate ... WHERE
\* currency_code = code AND date >= start AND date <= end ORDER BY date ASC.
GetForeignExchangeByCurrencyAndDateRange(store, code, start, end) ==
  LET rows == OrderByDate({r \in store : r.currency_code = code
                                          /\ r.date >= start /\ r.date <= end})
  IN [i \in 1..Len(rows) |->
        [Date |-> rows[i].date, MiddleRate |-> NumericText(rows[i].middle_rate)]]

\* The formatting loop: one TimeSeriesDataPoint per row whose rate parses.
RECURSIVE FormatRows(_)
FormatRows(rows) ==
  IF rows = <<>> THEN <<>>
  ELSE LET value == ParseNumeric(Head(rows).MiddleRate)
       IN IF value.err THEN FormatRows(Tail(rows))
          ELSE <<[date |-> FormatDate(Head(rows).Date), value |-> value.v]>>
               \o FormatRows(Tail(rows))

\* http.Error: the status, no JSON body; queried: the handler had run its query.
HttpError(path, status, queried) ==
  [path |-> path, status |-> status, body |-> <<>>, queried |-> queried]

\* sendJsonResponse after the query
SendJson(path, data) == [path |-> path, status |-> 200, body |-> data, queried |-> TRUE]

FxRatesPath == "/api/fx/rates"
StockPricesPath == "/api/stock/prices"

\* Faulty variant of the handler: the parameters are checked before the method.
FxRatesResponseParamsFirst(store, req, dbOk) ==
  IF req.code = "" \/ req.start_date = "" \/ req.end_date = ""
    THEN HttpError(FxRatesPath, 400, FALSE)
  ELSE IF req.method # "GET" THEN HttpError(FxRatesPath, 405, FALSE)
  ELSE IF CodeLen(req.code) # 3 THEN HttpError(FxRatesPath, 400, FALSE)
  ELSE LET startDate == ParseDate(req.start_date)
           endDate == ParseDate(req.end_date)
       IN IF startDate.err THEN HttpError(FxRatesPath, 400, FALSE)
          ELSE IF endDate.err THEN HttpError(FxRatesPath, 400, FALSE)
          ELSE IF ~dbOk THEN HttpError(FxRatesPath, 500, TRUE)
          ELSE SendJson(FxRatesPath,
                        FormatRows(GetForeignExchangeByCurrencyAndDateRange(
                          store, req.code, startDate.day, endDate.day)))

\* What handleGetFxRates writes for req; dbOk: the query returned no error.
FxRatesResponse(store, req, dbOk) ==
  IF req.method # "GET" THEN HttpError(FxRatesPath, 405, FALSE)
  ELSE IF req.code = "" \/ req.start_date = "" \/ req.end_date = ""
    THEN HttpError(FxRatesPath, 400, FALSE)
  ELSE IF CodeLen(req.code) # 3 THEN HttpError(FxRatesPath, 400, FALSE)
  ELSE LET startDate == ParseDate(req.start_date)
           endDate == ParseDate(req.end_date)
       IN IF startDate.err THEN HttpError(FxRatesPath, 400, FALSE)
          ELSE IF endDate.err THEN HttpError(FxRatesPath, 400, FALSE)
          ELSE IF ~dbOk THEN HttpError(FxRatesPath, 500, TRUE)
          ELSE SendJson(FxRatesPath,
                        FormatRows(GetForeignExchangeByCurrencyAndDateRange(
                          store, req.code, startDate.day, endDate.day)))

\* The server answers one request to /api/fx/rates; it serves from its start until
\* srv.Shutdown has let the requests in flight finish.
handleGetFxRates(req, dbOk) ==
  /\ Alive /\ srvPc \in {"recv", "shutdown"}
  /\ asked' = req
  /\ api' = FxRatesResponse(fxStore, req, dbOk)
  /\ UNCHANGED <<lifeVars, cliVars, dbVars, cfg>>

\* ---- the Query API: handleGetStockPrices ----

StockQueryCodes == {"1155", "9999"}

\* A request that passes every check of handleGetStockPrices.
GoodStockRequest ==
  [method |-> "GET", code |-> "1155", start_date |-> DateStrOf[1],
   end_date |-> DateStrOf[MaxDay]]

\* Requests to /api/stock/prices: those that pass every check, and requests that fail
\* exactly one of them.
StockRequests ==
  [method : {"GET"}, code : StockQueryCodes, start_date : DateStrs, end_date : DateStrs]
  \cup {[GoodStockRequest EXCEPT !.method = m, !.code = c] :
          m \in Methods \ {"GET"}, c \in {"", "1155"}}
  \cup {[GoodStockRequest EXCEPT !.code = ""]}
  \cup {[GoodStockRequest EXCEPT !.start_date = d] : d \in {"", BadDateStr}}
  \cup {[GoodStockRequest EXCEPT !.end_date = d] : d \in {"", BadDateStr}}

\* ORDER BY dsp.price_date ASC on a set of joined rows.
RECURSIVE OrderByPriceDate(_)
OrderByPriceDate(rows) ==
  IF rows = {} THEN <<>>
  ELSE LET r == CHOOSE x \in rows : \A y \in rows : x.PriceDate <= y.PriceDate
       IN <<r>> \o OrderByPriceDate(rows \ {r})

\* GetStockPricesWithDetailsByCodeAndDateRange: SELECT c.company_name, dsp.price_date,
\* dsp.closing_price, dsp.stock_code FROM daily_stock_prices dsp JOIN companies c ON
\* dsp.stock_code = c.stock_code WHERE dsp.stock_code = code AND dsp.price_date >= start
\* AND dsp.price_date <= end ORDER BY dsp.price_date ASC.
GetStockPricesWithDetailsByCodeAndDateRange(prices, comp, code, start, end) ==
  OrderByPriceDate(
    {[CompanyName |-> c.company_name, PriceDate |-> dsp.price_date,
      ClosingPrice |-> NumericText(dsp.closing_price), StockCode |-> dsp.stock_code] :
       <<dsp, c>> \in {jc \in prices \X comp :
                         /\ jc[1].stock_code = jc[2].stock_code
                         /\ jc[1].stock_code = code
                         /\ jc[1].price_date >= start /\ jc[1].price_date <= end}})

\* The formatting loop: one StockPriceDetailResponseItem per row whose price parses.
RECURSIVE FormatPriceRows(_)
FormatPriceRows(rows) ==
  IF rows = <<>> THEN <<>>
  ELSE LET price == ParseNumeric(Head(rows).ClosingPrice)
       IN IF price.err THEN FormatPriceRows(Tail(rows))
          ELSE <<[date |-> FormatDate(Head(rows).PriceDate), value |-> price.v,
                  company_name |-> Head(rows).CompanyName,
                  stock_code |-> Head(rows).StockCode]>>
               \o FormatPriceRows(Tail(rows))

\* Faulty variant of the handler: a request whose end date is before its start date
\* is refused.
StockPricesResponseOrdered(prices, comp, req, dbOk) ==
  IF req.method # "GET" THEN HttpError(StockPricesPath, 405, FALSE)
  ELSE IF req.code = "" \/ req.start_date = "" \/ req.end_date = ""
    THEN HttpError(StockPricesPath, 400, FALSE)
  ELSE LET startDate == ParseDate(req.start_date)
           endDate == ParseDate(req.end_date)
       IN IF startDate.err THEN HttpError(StockPricesPath, 400, FALSE)
          ELSE IF endDate.err THEN HttpError(StockPricesPath, 400, FALSE)
          ELSE IF endDate.day < startDate.day THEN HttpError(StockPricesPath, 400, FALSE)
          ELSE IF ~dbOk THEN HttpError(StockPricesPath, 500, TRUE)
          ELSE SendJson(StockPricesPath,
                        FormatPriceRows(GetStockPricesWithDetailsByCodeAndDateRange(
                          prices, comp, req.code, startDate.day, endDate.day)))

\* What handleGetStockPrices writes for req; dbOk: the query returned no error.
StockPricesResponse(prices, comp, req, dbOk) ==
  IF req.method # "GET" THEN HttpError(StockPricesPath, 405, FALSE)
  ELSE IF req.code = "" \/ req.start_date = "" \/ req.end_date = ""
    THEN HttpError(StockPricesPath, 400, FALSE)
  ELSE LET startDate == ParseDate(req.start_date)
           endDate == ParseDate(req.end_date)
       IN IF startDate.err THEN HttpError(StockPricesPath, 400, FALSE)
          ELSE IF endDate.err THEN HttpError(StockPricesPath, 400, FALSE)
          ELSE IF ~dbOk THEN HttpError(StockPricesPath, 500, TRUE)
          ELSE SendJson(StockPricesPath,
                        FormatPriceRows(GetStockPricesWithDetailsByCodeAndDateRange(
                          prices, comp, req.code, startDate.day, endDate.day)))

\* The server answers one request to /api/stock/prices.
handleGetStockPrices(req, dbOk) ==
  /\ Alive /\ srvPc \in {"recv", "shutdown"}
  /\ asked' = req
  /\ api' = StockPricesResponse(priceStore, companies, req, dbOk)
  /\ UNCHANGED <<lifeVars, cliVars, dbVars, cfg>>

\* ---- main ----

\* The operating system delivers SIGINT or SIGTERM: signal.Notify puts it in sigChan
\* (capacity 1) unless one is already waiting there.
Signal ==
  /\ Alive /\ ~sigPending
  /\ sigPending' = TRUE
  /\ UNCHANGED <<mainPc, srvPc, chanBuf, chanClosed, sigTaken, ctxCancelled, wg,
                 panicked, cliVars, dbVars, cfg, api, asked>>

\* select: case sig := <-sigChan
MainSelectSignal ==
  /\ Alive /\ mainPc = "select" /\ sigPending
  /\ sigPending' = FALSE
  /\ sigTaken' = TRUE
  /\ mainPc' = "sigSend"
  /\ UNCHANGED <<srvPc, chanBuf, chanClosed, ctxCancelled, wg, panicked, cliVars, dbVars,
                 cfg, api, asked>>

\* select: case <-shutdownChan
MainSelectShutdown ==
  /\ Alive /\ mainPc = "select"
  /\ chanBuf > 0 \/ chanClosed
  /\ chanBuf' = IF chanBuf > 0 THEN chanBuf - 1 ELSE chanBuf
  /\ mainPc' = "cancel"
  /\ UNCHANGED <<srvPc, chanClosed, sigPending, sigTaken, ctxCancelled, wg, panicked,
                 cliVars, dbVars, cfg, api, asked>>

\* select { case shutdownChan <- struct{}{}: default: }: a send on a closed channel
\* panics; otherwise the value is buffered if there is room, else default is taken.
MainSigSend ==
  /\ Alive /\ mainPc = "sigSend"
  /\ IF chanClosed
       THEN panicked' = TRUE /\ UNCHANGED <<chanBuf, mainPc>>
     ELSE IF chanBuf < ChanCap
       THEN chanBuf' = chanBuf + 1 /\ mainPc' = "cancel" /\ UNCHANGED panicked
     ELSE mainPc' = "cancel" /\ UNCHANGED <<chanBuf, panicked>>
  /\ UNCHANGED <<srvPc, chanClosed, sigPending, sigTaken, ctxCancelled, wg, cliVars,
                 dbVars, cfg, api, asked>>

\* cancel()
MainCancel ==
  /\ Alive /\ mainPc = "cancel"
  /\ ctxCancelled' = TRUE
  /\ mainPc' = "wait"
  /\ UNCHANGED <<srvPc, chanBuf, chanClosed, sigPending, sigTaken, wg, panicked, cliVars,
                 dbVars, cfg, api, asked>>

\* Faulty variant of the final wait: it returns without consulting the counter.
MainWaitUnguarded ==
  /\ Alive /\ mainPc = "wait"
  /\ mainPc' = "done"
  /\ UNCHANGED <<srvPc, chanBuf, chanClosed, sigPending, sigTaken, ctxCancelled, wg,
                 panicked, cliVars, dbVars, cfg, api, asked>>

\* wg.Wait() returns once the counter is zero; main returns and the process ends.
MainWait ==
  /\ Alive /\ mainPc = "wait"
  /\ wg = 0
  /\ mainPc' = "done"
  /\ UNCHANGED <<srvPc, chanBuf, chanClosed, sigPending, sigTaken, ctxCancelled, wg,
                 panicked, cliVars, dbVars, cfg, api, asked>>

\* ---------------------------------------------------------------------------
\* Specifications
\* ---------------------------------------------------------------------------

Booleans == {TRUE, FALSE}

\* The dispatcher reads a line whose handling is a single step of the loop.
CliReadSimple ==
  \/ CliReadError
  \/ \E line \in Lines :
       \/ CliBlank(line)
       \/ CliExit(line)
       \/ CliRunUnknown(line)
       \/ CliRunStub(line)

\* The dispatcher reads a line and dispatches it to an ingestion handler.
CliReadIngest ==
  \E line \in Lines :
    \/ FxFetchRangeStart(line)
    \/ FxFetchAllStart(line)
    \/ StockPriceAllStart(line)
    \/ StockProfileAllStart(line)
    \/ \E page \in PricePages, dbOk \in Booleans, day \in Days :
         StockPriceCmd(line, page, dbOk, day)
    \/ \E page \in ProfilePages, dbOk \in Booleans : StockProfileCmd(line, page, dbOk)

\* A running handler takes its next step.
CliHandlerStep ==
  \/ \E resp \in SingleResponses, dbOk \in Booleans : FxFetchRangeDay(resp, dbOk)
  \/ FxFetchRangeDone
  \/ \E resp \in MultiResponses : FxFetchAllFetch(resp)
  \/ \E dbOk \in Booleans : FxFetchAllEntry(dbOk)
  \/ FxFetchAllDone
  \/ \E page \in PricePages, dbOk \in Booleans, day \in Days :
       StockPriceAllUnit(page, dbOk, day)
  \/ StockPriceAllDone
  \/ \E page \in ProfilePages, dbOk \in Booleans : StockProfileAllProfile(page, dbOk)
  \/ \E page \in PricePages, dbOk \in Booleans, day \in Days :
       StockProfileAllPrice(page, dbOk, day)
  \/ StockProfileAllSleep
  \/ StockProfileAllDone

CliDeferred == CliDeferSelect \/ CliDeferClose \/ CliDeferCancel \/ CliWgDone

Server == SrvRecv \/ SrvShutdown \/ SrvWgDone

Main == MainSelectSignal \/ MainSelectShutdown \/ MainSigSend \/ MainCancel \/ MainWait

\* A client of the Query API sends a request.
Api == \E req \in Requests, dbOk \in Booleans : handleGetFxRates(req, dbOk)

ApiStock == \E req \in StockRequests, dbOk \in Booleans : handleGetStockPrices(req, dbOk)

Next == Signal \/ Main \/ Server \/ Api \/ ApiStock \/ CliReadSimple \/ CliReadIngest
        \/ CliHandlerStep \/ CliDeferred

Spec == Init /\ [][Next]_vars

\* The dispatcher's command handling on its own: every line is a command.  No other
\* task writes a variable the handlers read, so they behave here exactly as in Spec.
DispatcherNext ==
  \/ \E line \in Lines : CliRunUnknown(line) \/ CliRunStub(line)
  \/ CliReadIngest
  \/ CliHandlerStep

DispatcherSpec == InitWith(MaxCmds) /\ [][DispatcherNext]_vars

\* runCli on its own, from its first read to its wg.Done(): every kind of line, every
\* handler, the deferred functions.
LoopNext == CliReadSimple \/ CliReadIngest \/ CliHandlerStep \/ CliDeferred

LoopSpec == InitWith(MaxCmds) /\ [][LoopNext]_vars

\* The Query API next to the rate ingestion: the operator runs the two rate commands
\* while clients query /api/fx/rates.  The server and the dispatcher share only the
\* store, which each query and each upsert accesses in one step.
QueryNext ==
  \/ Api
  \/ \E line \in Lines : FxFetchRangeStart(line) \/ FxFetchAllStart(line)
  \/ \E resp \in SingleResponses, dbOk \in Booleans : FxFetchRangeDay(resp, dbOk)
  \/ FxFetchRangeDone
  \/ \E resp \in MultiResponses : FxFetchAllFetch(resp)
  \/ \E dbOk \in Booleans : FxFetchAllEntry(dbOk)
  \/ FxFetchAllDone

\* The stock list plays no part in the rate commands nor in the rate queries.
QueryInit == InitWith(MaxCmds) /\ cfg.StockList = <<>>

QuerySpec == QueryInit /\ [][QueryNext]_vars

\* Both handlers of the Query API next to the two one-instrument stock commands.
ApiNext ==
  \/ Api
  \/ ApiStock
  \/ \E line \in Lines, page \in PricePages, dbOk \in Booleans, day \in Days :
       StockPriceCmd(line, page, dbOk, day)
  \/ \E line \in Lines, page \in ProfilePages, dbOk \in Booleans :
       StockProfileCmd(line, page, dbOk)

ApiSpec == QueryInit /\ [][ApiNext]_vars

\* The long-running handlers next to the shutdown protocol: the operator runs a
\* range fetch or an all-instruments batch while a signal may arrive, main reacts to
\* it and the server shuts down.
BatchStep ==
  \/ \E line \in Lines : \/ FxFetchRangeStart(line)
                         \/ StockPriceAllStart(line)
                         \/ StockProfileAllStart(line)
  \/ \E resp \in SingleResponses, dbOk \in Booleans : FxFetchRangeDay(resp, dbOk)
  \/ FxFetchRangeDone
  \/ \E page \in PricePages, dbOk \in Booleans, day \in Days :
       StockPriceAllUnit(page, dbOk, day)
  \/ StockPriceAllDone
  \/ \E page \in ProfilePages, dbOk \in Booleans : StockProfileAllProfile(page, dbOk)
  \/ \E page \in PricePages, dbOk \in Booleans, day \in Days :
       StockProfileAllPrice(page, dbOk, day)
  \/ StockProfileAllSleep
  \/ StockProfileAllDone

\* The dispatcher never leaves its loop here, so main can only take the signal branch
\* of its select and then waits for ever in wg.Wait().
BusyNext ==
  \/ Signal
  \/ MainSelectSignal \/ MainSigSend \/ MainCancel
  \/ Server
  \/ BatchStep

\* The rate API is configured, the stock list is as long as it gets, and earlier runs
\* have left rows in the tables.
BusyInit ==
  /\ InitWith(MaxCmds)
  /\ cfg.FXAPIBaseURL # "" /\ Len(cfg.StockList) = MaxStocks
  /\ fxStore = SeedFx

BusySpec == BusyInit /\ [][BusyNext]_vars

\* The Go runtime runs main, the server and the handler in progress.
FairBusySpec == BusySpec /\ WF_vars(Main) /\ WF_vars(Server) /\ WF_vars(BatchStep)

\* The shutdown protocol: the three tasks and the signal, with the dispatcher reading
\* only lines whose handling is a single step.  The ingestion handlers leave every
\* variable of the protocol unchanged and always return to the loop.
LifecycleNext == Signal \/ Main \/ Server \/ CliReadSimple \/ CliDeferred

LifecycleSpec == Init /\ [][LifecycleNext]_vars

\* Scheduling: the Go runtime runs every runnable goroutine, so each step of main, of
\* the server and of the dispatcher's handlers and deferred functions is taken once
\* it stays enabled.  Nothing obliges the operator to type a line or close the input,
\* nor the operating system to send a signal.
Fairness ==
  /\ WF_vars(Main)
  /\ WF_vars(Server)
  /\ WF_vars(CliHandlerStep)
  /\ WF_vars(CliDeferred)

FairLifecycleSpec == LifecycleSpec /\ Fairness

\* ---------------------------------------------------------------------------
\* Properties: shutdown coordination
\* ---------------------------------------------------------------------------

\* The shutdown notification has been raised: a value is buffered or the channel is closed.
Raised == chanBuf > 0 \/ chanClosed

\* runHttpsServer and runCli have both returned, and so has main.
Terminated == srvPc = "done" /\ cliPc = "done" /\ mainPc = "done"

\* No operating-system signal has been delivered so far.
NoSignal == ~sigPending /\ ~sigTaken

\* C1: raising the shutdown notification never panics: main never sends on
\* shutdownChan after the dispatcher closed it, and the channel is never closed twice.
\* (panicked is set exactly by a send on, or a close of, the closed channel.)
C1_RaiseNeverPanics == ~panicked

\* C2: once the notification has been raised, the Query API task eventually observes
\* it and starts its shutdown; no other task consumes it and leaves the server blocked.
\* (Runs that end in a panic of the runtime are not held against the property.)
C2_ServerObservesNotification == Raised ~> (srvPc # "recv" \/ panicked)

\* C3: main returns from its final wait only after runHttpsServer and runCli have
\* both reported completion on the WaitGroup.
C3_WaitIsBarrier == mainPc = "done" => (srvPc = "done" /\ cliPc = "done" /\ wg = 0)

\* C3 witness: main has returned from wg.Wait() after a signal-initiated shutdown.
C3_Witness == mainPc = "done" /\ sigTaken /\ ~panicked

\* C4: when the dispatcher exits on its own and no OS signal is delivered, the server
\* shuts down, both tasks complete and main terminates.
C4_DispatcherExitTerminates == (cliPc = "deferSelect" /\ NoSignal) ~> (Terminated \/ ~NoSignal)

\* C4 witness: everything has terminated and no signal was ever delivered.
C4_Witness == Terminated /\ NoSignal /\ chanClosed

\* C5: after an OS signal both tasks eventually complete and main terminates, even if
\* no further line and no end of input arrives at the dispatcher.  Stated for the
\* dispatcher, the task that the signal has to bring to completion without input:
\* after a signal runCli eventually returns.
\* (Runs that end in a panic of the runtime are not held against the property.)
C5_SignalTerminates == sigTaken ~> (cliPc = "done" \/ panicked)

\* ---------------------------------------------------------------------------
\* Properties: the ingestion handlers
\* ---------------------------------------------------------------------------

\* Handler `name` has returned to the loop.
Returned(name) == cliPc = "read" /\ last.name = name

\* The result of the last command is an error.
Failed == last.result \notin {"", "ok", "running"}

\* The number of calendar days of the range the command names (both ends included).
RangeDays(c) == ParseDate(c.Args[3]).day - ParseDate(c.Args[2]).day + 1

\* C6: a range fetch over N days in which M days are answered 404 and the other N - M
\* succeed issues exactly N fetches, one per day in order up to the end day, counts
\* N - M successful and M failed fetches, and returns success only after day N.
C6_RangeAttemptsEveryDay ==
  (Returned("fx:fetch:range") /\ last.result = "ok") =>
    LET N == RangeDays(cmd)
        M == inv.notFound
    IN /\ inv.net = N
       /\ Len(inv.attempted) = N
       /\ inv.attempted[N].unit = cmd.Args[3]
       /\ [i \in 1..N |-> inv.attempted[i].unit] = dates
       /\ inv.otherFail = 0 =>
            (counts.successfulFetches = N - M /\ counts.failedFetches = M)

\* C6 witness: a three-day range with one 404 and two successful fetches has returned.
C6_Witness ==
  /\ Returned("fx:fetch:range") /\ last.result = "ok"
  /\ RangeDays(cmd) = 3 /\ inv.notFound = 1 /\ inv.otherFail = 0
  /\ counts.successfulFetches = 2

\* C7: in fx:fetch_all an entry with a malformed date or a failed upsert is skipped
\* and the later entries are still processed: once the batch has been fetched, the
\* handler returns nil having attempted every entry of it.
C7_BatchSkipsBadEntry ==
  (Returned("fx:fetch_all") /\ inv.net = 1 /\ last.result # "failed to fetch FX rates") =>
    (last.result = "ok" /\ Len(inv.attempted) = Len(rates))

\* The batch and range handlers.
BatchHandlers ==
  {"fx:fetch_all", "fx:fetch:range", "stock:fetch:price_all", "stock:fetch:profile_all"}

\* C8: a batch or range handler returns an error only when a precondition fails
\* before any unit: whenever it returned an error, it applied no upsert.
C8_ErrorMeansNoUpsert ==
  (cliPc = "read" /\ last.name \in BatchHandlers /\ Failed) => inv.upserts = 0

\* The command is a range fetch whose two dates parse and whose end is before its start.
ReversedRange(c) ==
  /\ c.Name = "fx:fetch:range" /\ Len(c.Args) = 3
  /\ ~ParseDate(c.Args[2]).err /\ ~ParseDate(c.Args[3]).err
  /\ ParseDate(c.Args[3]).day < ParseDate(c.Args[2]).day

\* C9: fx:fetch:range with its end before its start returns an error in the step that
\* dispatches it, without a network call and without an upsert (the store, the clock
\* of the upsert calls and the bookkeeping of the invocation stay as they were).
C9_ReversedRangeRejected ==
  [][(linesLeft' < linesLeft /\ ReversedRange(cmd')) =>
       /\ cliPc' = "read" /\ last'.name = "fx:fetch:range"
       /\ last'.result \in {"end date must be after start date",
                             "FX_API_BASE_URL is not configured"}
       /\ inv' = NoInv
       /\ UNCHANGED dbVars]_vars

\* C9 witness: a reversed range was rejected with the store holding rows.
C9_Witness ==
  /\ Returned("fx:fetch:range") /\ ReversedRange(cmd)
  /\ last.result = "end date must be after start date"
  /\ fxStore = SeedFx

FxKeyOf(r) == <<r.currency_code, r.date>>
PriceKeyOf(r) == <<r.stock_code, r.price_date>>

\* Each table holds at most one row per key, and the row of a key holds the values of
\* the most recent upsert applied to that key.
StoreMatchesHistory ==
  /\ \A r1, r2 \in fxStore : FxKeyOf(r1) = FxKeyOf(r2) => r1 = r2
  /\ \A r \in fxStore : FxKeyOf(r) \in FxKeys
  /\ \A k \in FxKeys :
       IF fxWritten[k] = NoWrite
         THEN ~\E r \in fxStore : FxKeyOf(r) = k
         ELSE \E r \in fxStore : FxKeyOf(r) = k /\ FxWrite(r) = fxWritten[k]
  /\ \A r1, r2 \in priceStore : PriceKeyOf(r1) = PriceKeyOf(r2) => r1 = r2
  /\ \A r \in priceStore : PriceKeyOf(r) \in PriceKeys
  /\ \A k \in PriceKeys :
       IF priceWritten[k] = NoWrite
         THEN ~\E r \in priceStore : PriceKeyOf(r) = k
         ELSE \E r \in priceStore :
                PriceKeyOf(r) = k /\ PriceWrite(r, r.extracted_at) = priceWritten[k]

\* A step leaves every row alone whose key it applied no upsert to.
OtherKeysUntouched ==
  /\ \A r \in fxStore : fxWritten'[FxKeyOf(r)] = fxWritten[FxKeyOf(r)] => r \in fxStore'
  /\ \A r \in priceStore :
       priceWritten'[PriceKeyOf(r)] = priceWritten[PriceKeyOf(r)] => r \in priceStore'

\* C10: after any sequence of rate and price upserts each (code, date) key has at most
\* one row, holding the values of the most recent upsert to it, and an upsert to one
\* key never changes the rows of other keys.
C10_UpsertPerKey == []StoreMatchesHistory /\ [][OtherKeysUntouched]_vars

\* C10 witness: an upsert hit the key of an existing row (its id kept, its values and
\* time replaced) while the table holds a row of another key.
C10_Witness ==
  /\ Cardinality(fxStore) = 2
  /\ \E r \in fxStore : r.id = 0 /\ r.created_at > 0

\* ---------------------------------------------------------------------------
\* Properties: the dispatcher loop
\* ---------------------------------------------------------------------------

\* runCli is inside its for loop (reading, or running a handler).
InLoop == cliPc \notin {"deferSelect", "deferClose", "deferCancel", "wgDone", "done"}

ExitWords == {<<"exit">>, <<"quit">>}

\* A step that takes runCli out of its loop starts at the read and either failed to
\* read or read a line that trims to exactly exit or quit; a blank line, and a command
\* that returned an error (command not found included), leave runCli reading; no step
\* taken inside the loop closes shutdownChan.
LoopStep ==
  /\ (InLoop /\ ~InLoop') =>
       /\ cliPc = "read" /\ cliPc' = "deferSelect"
       /\ input'.err \/ (linesLeft' < linesLeft /\ TrimSpace(input'.line) \in ExitWords)
  /\ (linesLeft' < linesLeft /\ TrimSpace(input'.line) = <<>>) => cliPc' = "read"
  /\ (last' # last /\ last'.result \notin {"ok", "running"}) => cliPc' = "read"
  /\ InLoop => (chanClosed' = chanClosed /\ chanBuf' >= chanBuf)

\* C11: the dispatcher loop terminates only on a line that trims to exactly exit or
\* quit, or on a read error / end of input; blank lines, unknown command names and
\* handler errors never terminate it and never raise the shutdown notification.
C11_LoopEndsOnlyOnExit == [](InLoop => ~chanClosed) /\ [][LoopStep]_vars

\* C11 witness: a handler returned an error, the loop went on to its next read, and
\* only the end of input ended it and closed the channel.
C11_Witness ==
  /\ cliPc = "done" /\ input.err /\ chanClosed
  /\ last.name = "fx:fetch:range" /\ Failed

\* The shutdown notification has been raised at some time: shutdownChan was closed, or
\* main has executed its send after taking a signal.
HasBeenRaised == chanClosed \/ (sigTaken /\ mainPc \notin {"select", "sigSend"})

\* A step that ends the loop, whether by an exit line or by a failed read, dispatches
\* no command and changes nothing but runCli's position, its input and the lines left.
EndOfLoopStep ==
  (cliPc = "read" /\ ~InLoop') =>
    /\ cliPc' = "deferSelect"
    /\ UNCHANGED <<lifeVars, cmd, last, dates, rates, idx, counts, inv, dbVars, cfg>>

\* C12: end of input has the same effect as an explicit exit line: no command is
\* dispatched, the shutdown notification is raised (it has been raised, by the
\* dispatcher's close or before it by main's send), and only then does the dispatcher
\* report completion on the WaitGroup.
C12_EofLikeExit ==
  /\ [][EndOfLoopStep]_vars
  /\ [](cliPc \in {"wgDone", "done"} => HasBeenRaised)
  /\ [][wg' < wg /\ cliPc' = "done" => HasBeenRaised]_vars

\* C12 witness: the input ended, the dispatcher closed the channel and has reported
\* completion; no signal was involved.
C12_Witness == cliPc = "done" /\ input.err /\ chanClosed /\ NoSignal /\ wg < WgParties

\* C13: dispatching a command whose name is not in the registry returns the
\* distinguished "command not found" error in the dispatching step itself: no handler
\* runs (no network call, no upsert call, runCli is back at its read) and the store is
\* left unchanged.
C13_UnknownCommand ==
  [][(linesLeft' < linesLeft /\ IsCommand(input'.line) /\ cmd'.Name \notin Registered) =>
       /\ last' = [name |-> cmd'.Name, result |-> "command not found", notice |-> FALSE]
       /\ cliPc' = "read"
       /\ inv' = NoInv
       /\ UNCHANGED dbVars]_vars

\* C13 witness: an unregistered name was dispatched against a store holding rows.
C13_Witness ==
  /\ cliPc = "read" /\ cmd.Name = "bogus" /\ last.result = "command not found"
  /\ fxStore = SeedFx /\ priceStore = SeedPrices /\ companies = SeedCompanies

\* C14: within a range fetch the days are attempted in strictly ascending calendar
\* order, each day of the closed interval exactly once (none retried, none skipped),
\* whatever the outcome of the earlier days: at every moment of the run the i-th unit
\* attempted is day start + i - 1, and at the return every day has been attempted.
C14_RangeAscendingOnce ==
  (cmd.Name = "fx:fetch:range" /\ last.name = "fx:fetch:range"
     /\ last.result \in {"running", "ok"}) =>
    LET a == inv.attempted
        start == ParseDate(cmd.Args[2]).day
        end == ParseDate(cmd.Args[3]).day
    IN /\ Len(a) <= end - start + 1
       /\ \A i \in 1..Len(a) :
            a[i].kind = "rate" /\ ParseDate(a[i].unit) = [err |-> FALSE, day |-> start + i - 1]
       /\ inv.net = Len(a)
       /\ last.result = "ok" => Len(a) = end - start + 1

\* C14 witness: a three-day range has returned after a 404, another fetch failure and
\* a stored rate.
C14_Witness ==
  /\ Returned("fx:fetch:range") /\ last.result = "ok"
  /\ Len(inv.attempted) = 3 /\ inv.notFound = 1 /\ inv.otherFail = 1
  /\ counts.successfulStores = 1

\* ---------------------------------------------------------------------------
\* Properties: the stock handlers
\* ---------------------------------------------------------------------------

\* The j-th step of stock:fetch:profile_all over `list`: profile, price and pause of
\* the first stock code, then of the second, and so on.
ProfileAllStep(list, j) ==
  [kind |-> <<"profile", "price", "sleep">>[((j - 1) % 3) + 1],
   unit |-> list[((j - 1) \div 3) + 1]]

\* C15: an all-instruments batch attempts every instrument of the configured list
\* exactly once, in list order, and the failure of one instrument never prevents the
\* following ones from being attempted: once past its argument check the handler never
\* returns an error, what it has attempted is at every moment a prefix of the list
\* (for profile_all: profile then price of each code), and at its return the whole list.
C15_BatchAttemptsWholeList ==
  /\ (cmd = [Name |-> "stock:fetch:price_all", Args |-> <<>>]
        /\ last.name = "stock:fetch:price_all") =>
       /\ last.result \in {"running", "ok"}
       /\ Len(inv.attempted) <= Len(cfg.StockList)
       /\ \A i \in 1..Len(inv.attempted) :
            inv.attempted[i] = [kind |-> "price", unit |-> cfg.StockList[i]]
       /\ last.result = "ok" => Len(inv.attempted) = Len(cfg.StockList)
  /\ (cmd = [Name |-> "stock:fetch:profile_all", Args |-> <<>>]
        /\ last.name = "stock:fetch:profile_all") =>
       /\ last.result \in {"running", "ok"}
       /\ Len(inv.attempted) <= 3 * Len(cfg.StockList)
       /\ \A j \in 1..Len(inv.attempted) :
            inv.attempted[j] = ProfileAllStep(cfg.StockList, j)
       /\ last.result = "ok" => Len(inv.attempted) = 3 * Len(cfg.StockList)

\* C15 witness: stock:fetch:price_all over two stock codes has returned; the first
\* code has no company row, so its upsert failed, and the second was stored.
C15_Witness ==
  /\ Returned("stock:fetch:price_all") /\ last.result = "ok"
  /\ cfg.StockList = <<"5347", "1155">> /\ companies = SeedCompanies
  /\ inv.upsertCalls = 2 /\ inv.upserts = 1

\* In the steps a batch has taken, two requests that follow each other without a pause
\* between them are requests for the same stock code.
PausedBetweenInstruments ==
  \A j \in 1..(Len(inv.attempted) - 1) :
    (inv.attempted[j].kind # "sleep" /\ inv.attempted[j + 1].kind # "sleep") =>
      inv.attempted[j].unit = inv.attempted[j + 1].unit

\* C16: in every all-instruments batch (stock:fetch:price_all and
\* stock:fetch:profile_all) a delay step occurs between the requests for two
\* consecutive instruments: the fetch for instrument i+1 never directly follows the
\* fetch for instrument i.
C16_DelayBetweenInstruments ==
  last.name \in {"stock:fetch:price_all", "stock:fetch:profile_all"} =>
    PausedBetweenInstruments

\* C17: stock:fetch:price_all with an empty tracked-instrument list performs no
\* network call and no upsert, emits a logged notice, and returns success.
C17_EmptyListPriceAll ==
  (Returned("stock:fetch:price_all") /\ cmd.Args = <<>> /\ cfg.StockList = <<>>) =>
    /\ last.result = "ok"
    /\ inv.net = 0 /\ inv.upsertCalls = 0
    /\ last.notice

\* A page that was fetched and parsed but lacks the "Last Price" container, or holds
\* an empty value in it.
LacksPrice(page) ==
  page.status = 200 /\ page.parsable /\ (~page.found \/ page.priceStr = "")

\* A page whose "Last Price" value is present but is no number.
NonNumericPrice(page) ==
  /\ page.status = 200 /\ page.parsable /\ page.found /\ page.priceStr # ""
  /\ ParseFloat(TrimPrice(page.priceStr)).err

\* C18: when the fetched page lacks the labeled price container (or its value is
\* empty) stock:fetch:price fails with the "could not find" outcome, which is not the
\* outcome of a non-numeric price, and performs no upsert.
C18_PriceFieldNotFound ==
  [][\A page \in PricePages, dbOk \in Booleans, day \in Days :
       (StockPriceCmd(input'.line, page, dbOk, day) /\ Len(cmd'.Args) = 1) =>
         /\ LacksPrice(page) =>
              /\ last'.result = "could not find 'Last Price' element or value"
              /\ inv'.upsertCalls = 0 /\ inv'.upserts = 0
              /\ UNCHANGED <<priceStore, priceWritten, clock>>
         /\ NonNumericPrice(page) =>
              /\ last'.result = "failed to parse price string"
              /\ last'.result # "could not find 'Last Price' element or value"]_vars

\* C18 witness: stock:fetch:price failed on a page without the price container, and
\* the table still holds exactly what it held.
C18_Witness ==
  /\ Returned("stock:fetch:price")
  /\ last.result = "could not find 'Last Price' element or value"
  /\ inv.net = 1 /\ priceStore = SeedPrices

\* What the column of a secondary field holds for the extracted text t.
Stored(t) == IF t = "" THEN Null ELSE t

\* C19: given a successfully fetched profile page, stock:fetch:profile issues the
\* profile upsert if and only if a company name was extracted; a missing country,
\* sector or subsector never causes a failure (with a name, the only failure left is
\* the database refusing the upsert) and is stored as NULL.
C19_ProfileNeedsOnlyName ==
  [][\A page \in ProfilePages, dbOk \in Booleans :
       (StockProfileCmd(input'.line, page, dbOk) /\ Len(cmd'.Args) = 1
          /\ page.status = 200 /\ page.parsable) =>
         LET t == page.texts
         IN /\ inv'.upsertCalls = 1 <=> t.companyName # ""
            /\ t.companyName = "" =>
                 /\ last'.result = "failed to extract company name"
                 /\ companies' = companies
            /\ (t.companyName # "" /\ dbOk) =>
                 /\ last'.result = "ok"
                 /\ inv'.upserts = 1
                 /\ \E r \in companies' :
                      /\ r.stock_code = cmd'.Args[1]
                      /\ r.company_name = t.companyName
                      /\ r.country_code = Stored(t.countryCode)
                      /\ r.sector = Stored(t.sector)
                      /\ r.subsector = Stored(t.subsector)
            /\ (t.companyName # "" /\ ~dbOk) =>
                 /\ last'.result = "failed to upsert company profile"
                 /\ companies' = companies]_vars

\* C19 witness: a profile with a company name and nothing else was stored, its
\* secondary fields NULL.
C19_Witness ==
  /\ Returned("stock:fetch:profile") /\ last.result = "ok"
  /\ \E r \in companies :
       /\ r.stock_code = "5347" /\ r.company_name = "MAYBANK"
       /\ r.country_code = Null /\ r.sector = Null /\ r.subsector = Null

\* ---------------------------------------------------------------------------
\* The Query API
\* ---------------------------------------------------------------------------

\* A request handleGetFxRates does not reject: GET, a three-letter code, two dates
\* in the layout 2006-01-02.
WellFormed(req) ==
  /\ req.method = "GET"
  /\ req.code \in QueryCodes \cup {"usd"}
  /\ req.start_date \in DateStrs /\ req.end_date \in DateStrs

\* The stored rows a request asks for.
Matching(req) ==
  {r \in fxStore : /\ r.currency_code = req.code
                   /\ \E s, e \in Days : /\ DateStrOf[s] = req.start_date
                                         /\ DateStrOf[e] = req.end_date
                                         /\ s <= r.date /\ r.date <= e}

\* C20: a well-formed GET /api/fx/rates whose query succeeds is answered 200 with one
\* {date, value} element for each stored row of the requested currency dated within
\* [start_date, end_date] and no other element, value being the row's middle rate, in
\* ascending date order; the array is empty when no row matches.
C20_FxRatesAnswer ==
  [][\A req \in Requests :
       (WellFormed(req) /\ handleGetFxRates(req, TRUE)) =>
         /\ api'.status = 200
         /\ Len(api'.body) = Cardinality(Matching(req))
         /\ \A r \in Matching(req) :
              \E i \in 1..Len(api'.body) :
                api'.body[i] = [date |-> DateStrOf[r.date], value |-> r.middle_rate]
         /\ \A i \in 1..Len(api'.body) :
              \E r \in Matching(req) :
                api'.body[i] = [date |-> DateStrOf[r.date], value |-> r.middle_rate]
         /\ \A i, j \in 1..Len(api'.body) :
              i < j => \E m, n \in Days : /\ DateStrOf[m] = api'.body[i].date
                                          /\ DateStrOf[n] = api'.body[j].date
                                          /\ m < n
         /\ Matching(req) = {} => api'.body = <<>>]_vars

\* A two-element answer while the store holds, as it did from the start, a row of
\* the answer's currency dated before the answer's first element.
C20_Witness ==
  /\ asked = [method |-> "GET", code |-> "USD", start_date |-> DateStrOf[2],
              end_date |-> DateStrOf[3]]
  /\ api.status = 200 /\ Len(api.body) = 2
  /\ api.body[1].date = DateStrOf[2] /\ api.body[2].date = DateStrOf[3]
  /\ \E r \in fxStore : r.currency_code = "USD" /\ r.date = 1 /\ r.id = 0
  /\ \A i \in 1..2 : \E r \in fxStore : /\ r.currency_code = "USD"
                                         /\ DateStrOf[r.date] = api.body[i].date
                                         /\ r.middle_rate = api.body[i].value

\* A parameter is missing, or a date is not in the layout 2006-01-02.
BadParameters(req) ==
  \/ req.code = "" \/ req.start_date = "" \/ req.end_date = ""
  \/ req.start_date \notin DateStrs \/ req.end_date \notin DateStrs

\* The status a failing request must get, 0 when C21 names none for it; malformed:
\* the handler refuses the parameters.
FailureStatus(req, malformed, dbOk) ==
  IF req.method # "GET" THEN 405
  ELSE IF malformed THEN 400
  ELSE IF ~dbOk THEN 500
  ELSE 0

\* The step answered a failing request as C21 says.
FailureMapped(failure) ==
  /\ api'.status = failure
  /\ api'.body = <<>>
  /\ failure \in {405, 400} => ~api'.queried
  /\ UNCHANGED dbVars

\* C21: both handlers of the Query API answer a non-GET method with 405 whatever the
\* parameters, a GET with a missing parameter or an unparsable date (for the rates,
\* also a code that has not three letters) with 400 without running the query, a
\* failed query with 500, and in none of these cases is a table or the history of its
\* upserts changed.
C21_FailureStatuses ==
  [][/\ \A req \in Requests, dbOk \in Booleans :
          LET failure == FailureStatus(req, BadParameters(req) \/ CodeLen(req.code) # 3,
                                       dbOk)
          IN (failure # 0 /\ handleGetFxRates(req, dbOk)) => FailureMapped(failure)
     /\ \A req \in StockRequests, dbOk \in Booleans :
          LET failure == FailureStatus(req, BadParameters(req), dbOk)
          IN (failure # 0 /\ handleGetStockPrices(req, dbOk)) => FailureMapped(failure)
    ]_vars

\* C21 witness: a price query failed in the store, after a command had added a second
\* row to the price table.
C21_Witness ==
  /\ asked = GoodStockRequest
  /\ api.path = StockPricesPath /\ api.status = 500 /\ api.queried
  /\ Cardinality(priceStore) = 2

\* ---------------------------------------------------------------------------
\* The rate client's 404
\* ---------------------------------------------------------------------------

\* The error of the client differs between a 404 and every other failure it reports.
NotFoundIsDistinct ==
  \A r1, r2 \in SingleResponses :
    (r1.status = 404 /\ r2.status # 404) =>
      /\ FetchTargetCurrencyRates(r1).err # ""
      /\ FetchTargetCurrencyRates(r1).err # FetchTargetCurrencyRates(r2).err

\* C22: the client answers a 404 with an error of its own, different from its error
\* for any other status but 200, for a transport failure and for an undecodable body;
\* in the range fetch a day answered 404 is counted as a failed fetch, writes nothing,
\* and the loop goes on to the next day.
C22_NotFoundIsNotFatal ==
  /\ []NotFoundIsDistinct
  /\ [][\A resp \in SingleResponses, dbOk \in Booleans :
          (resp.status = 404 /\ FxFetchRangeDay(resp, dbOk)) =>
            /\ cliPc' = "fxRange" /\ idx' = idx + 1
            /\ last' = last /\ last.result = "running"
            /\ counts' = [counts EXCEPT !.failedFetches = @ + 1]
            /\ UNCHANGED dbVars]_vars

\* C22 witness: a range fetch of three days returned normally after two days were
\* answered 404 and one day was stored.
C22_Witness ==
  /\ Returned("fx:fetch:range") /\ last.result = "ok"
  /\ Len(dates) = 3 /\ inv.notFound = 2 /\ inv.upserts = 1
  /\ counts.failedFetches = 2 /\ counts.successfulStores = 1

\* ---------------------------------------------------------------------------
\* Units of work that fail before their upsert
\* ---------------------------------------------------------------------------

\* The three tables and the history of the upserts applied to them.
Tables == <<fxStore, priceStore, companies, fxWritten, priceWritten>>

\* A rate response the range fetch cannot store: transport failure, a status other
\* than 200, an undecodable body, an unparsable date.
BadRateResponse(resp) ==
  resp.status # 200 \/ ~resp.decodable \/ resp.data.date \notin DateStrs

\* A price page that yields no price.
BadPricePage(page) ==
  page.status # 200 \/ ~page.parsable \/ LacksPrice(page) \/ NonNumericPrice(page)

\* A profile page that yields no company name.
BadProfilePage(page) ==
  page.status # 200 \/ ~page.parsable \/ page.texts.companyName = ""

\* C23: a day of the range fetch, an entry of fx:fetch_all, a price fetch and a
\* profile fetch (run alone or as a unit of a batch) that fail before their upsert
\* leave every table as it was when the unit started.
C23_FailedUnitWritesNothing ==
  [][/\ \A resp \in SingleResponses, dbOk \in Booleans :
          (BadRateResponse(resp) /\ FxFetchRangeDay(resp, dbOk)) => UNCHANGED Tables
     /\ \A dbOk \in Booleans :
          (cliPc = "fxAll" /\ idx <= Len(rates) /\ rates[idx].date \notin DateStrs
             /\ FxFetchAllEntry(dbOk)) => UNCHANGED Tables
     /\ \A page \in PricePages, dbOk \in Booleans, day \in Days :
          (BadPricePage(page) /\ (\/ StockPriceCmd(input'.line, page, dbOk, day)
                                  \/ StockPriceAllUnit(page, dbOk, day)
                                  \/ StockProfileAllPrice(page, dbOk, day)))
            => UNCHANGED Tables
     /\ \A page \in ProfilePages, dbOk \in Booleans :
          (BadProfilePage(page) /\ (\/ StockProfileCmd(input'.line, page, dbOk)
                                    \/ StockProfileAllProfile(page, dbOk)))
            => UNCHANGED Tables]_vars

\* C23 witness: stock:fetch:profile failed for want of a company name while the
\* companies table held a row, which is still there untouched.
C23_Witness ==
  /\ Returned("stock:fetch:profile")
  /\ last.result = "failed to extract company name"
  /\ inv.net = 1 /\ inv.upsertCalls = 0
  /\ companies = SeedCompanies /\ cmd.Args = <<"1155">>

\* ---------------------------------------------------------------------------
\* Handlers in progress and the shutdown
\* ---------------------------------------------------------------------------

\* runCli is inside the range fetch or inside an all-instruments batch.
Busy == cliPc \in {"fxRange", "priceAll", "profAllProfile", "profAllPrice", "profAllSleep"}

\* The number of steps the running handler has to attempt.
UnitsToAttempt ==
  CASE cliPc = "fxRange" -> Len(dates)
    [] cliPc = "priceAll" -> Len(cfg.StockList)
    [] OTHER -> 3 * Len(cfg.StockList)

\* A step taken while a handler is in progress: a step of the shutdown protocol leaves
\* the handler and the tables alone; the handler is left only by its return to the
\* read, with its normal result and every unit attempted.
BusyStep ==
  Busy =>
    /\ lifeVars' # lifeVars => UNCHANGED <<cliVars, dbVars>>
    /\ Busy' \/ (/\ cliPc' = "read"
                 /\ last'.name = cmd.Name /\ last'.result = "ok"
                 /\ Len(inv'.attempted) = UnitsToAttempt)
    /\ Len(inv'.attempted) >= Len(inv.attempted)

\* C24: a signal, main's reaction to it and the server's shutdown, arriving while the
\* dispatcher runs a range fetch or an all-instruments batch, do not stop the handler:
\* the process stays alive, the handler keeps every unit it has to attempt, returns
\* "ok" with all of them attempted before runCli does anything else, and it does
\* return.
C24_HandlerOutlivesSignal ==
  /\ [](Busy => Alive)
  /\ [][BusyStep]_vars
  /\ (Busy ~> cliPc = "read")

\* C24 witness: a three-day range fetch has returned with its three days attempted
\* after main took a signal and the server shut down and reported on the barrier.
C24_Witness ==
  /\ Returned("fx:fetch:range") /\ last.result = "ok" /\ Len(inv.attempted) = 3
  /\ sigTaken /\ ctxCancelled /\ srvPc = "done" /\ mainPc = "wait" /\ wg = 1

\* ---------------------------------------------------------------------------
\* The server's shutdown has a cause
\* ---------------------------------------------------------------------------

\* C25: runHttpsServer is past its receive only if the notification has been raised,
\* by main's send after a signal or by the dispatcher's close; it never is while main
\* still waits in its select with no signal taken and the channel open; and the step
\* that takes it past the receive finds a value in the channel or the channel closed.
C25_ShutdownHasCause ==
  /\ [](srvPc # "recv" => HasBeenRaised)
  /\ [](~(srvPc # "recv" /\ mainPc = "select" /\ ~sigTaken /\ ~chanClosed))
  /\ [][(srvPc = "recv" /\ srvPc' # "recv") => Raised]_vars

\* C25 witness: the server is shutting down on the dispatcher's close while main,
\* which no signal reached, is still in its select.
C25_Witness ==
  /\ srvPc = "shutdown" /\ mainPc = "select" /\ NoSignal
  /\ chanClosed /\ chanBuf = 0 /\ ~panicked

\* ---------------------------------------------------------------------------
\* The counters of the range fetch
\* ---------------------------------------------------------------------------

\* C26: in a range fetch that passed validation, after every iteration the fetches
\* counted (successful + failed) are the days processed, the stores counted
\* (successful + failed) are the successful fetches, and the upserts attempted do not
\* exceed the successful fetches; at its end the fetches counted are the N days of the
\* range.
C26_RangeCounters ==
  (cmd.Name = "fx:fetch:range" /\ last.name = "fx:fetch:range"
     /\ last.result \in {"running", "ok"}) =>
    /\ counts.successfulFetches + counts.failedFetches = idx - 1
    /\ counts.successfulStores + counts.failedStores = counts.successfulFetches
    /\ inv.upsertCalls <= counts.successfulFetches
    /\ inv.upserts = counts.successfulStores
    /\ last.result = "ok" =>
         counts.successfulFetches + counts.failedFetches = RangeDays(cmd)

\* C26 witness: a three-day range fetch has ended with one failed fetch, one response
\* whose date did not parse and one stored rate.
C26_Witness ==
  /\ Returned("fx:fetch:range") /\ last.result = "ok" /\ RangeDays(cmd) = 3
  /\ counts = [successfulFetches |-> 2, failedFetches |-> 1, successfulStores |-> 1,
               failedStores |-> 1]
  /\ inv.upsertCalls = 1

\* ---------------------------------------------------------------------------
\* The key of the rows the range fetch writes
\* ---------------------------------------------------------------------------

\* C27: every upsert applied by an iteration of fx:fetch:range writes the row of the
\* day that iteration requested, a day of the closed interval [START, END] of the
\* command, and of the command's currency.
C27_RangeRowKeyedByRequestedDay ==
  [][cliPc = "fxRange" =>
       \A k \in FxKeys :
         fxWritten'[k] # fxWritten[k] =>
           /\ k[1] = ToUpper(cmd.Args[1])
           /\ k[2] = ParseDate(dates[idx]).day
           /\ ParseDate(cmd.Args[2]).day <= k[2] /\ k[2] <= ParseDate(cmd.Args[3]).day]_vars

\* ---------------------------------------------------------------------------
\* exit or quit followed by further words
\* ---------------------------------------------------------------------------

\* The line starts with the word exit or quit and carries further words.
ExitWithWords(line) ==
  LET parts == Fields(TrimSpace(line))
  IN Len(parts) > 1 /\ parts[1] \in {"exit", "quit"}

\* C28: a line whose first word is exit or quit and which carries further words does
\* not end the dispatcher loop and raises no notification (no variable of the shutdown
\* protocol changes); it is dispatched as the command named by its first word with the
\* other words as arguments, yields "command not found", and leaves the tables alone.
C28_ExitWithWordsIsACommand ==
  [][(linesLeft' < linesLeft /\ ~input'.err /\ ExitWithWords(input'.line)) =>
       LET parts == Fields(TrimSpace(input'.line))
       IN /\ cliPc' = "read"
          /\ cmd' = [Name |-> Head(parts), Args |-> Tail(parts)]
          /\ last' = [name |-> Head(parts), result |-> "command not found",
                      notice |-> FALSE]
          /\ UNCHANGED <<lifeVars, dbVars>>]_vars

\* C28 witness: "exit now" was answered "command not found"; runCli is back at its
\* read with the channel open and empty.
C28_Witness ==
  /\ cliPc = "read" /\ input.line = <<"exit", Space, "now">>
  /\ cmd = [Name |-> "exit", Args |-> <<"now">>]
  /\ last.result = "command not found"
  /\ ~chanClosed /\ chanBuf = 0 /\ wg = WgParties

\* ---------------------------------------------------------------------------
\* Profile before price in stock:fetch:profile_all
\* ---------------------------------------------------------------------------

\* stock:fetch:profile_all is the command in progress or the last one finished.
InProfileAll ==
  cmd = [Name |-> "stock:fetch:profile_all", Args |-> <<>>]
    /\ last.name = "stock:fetch:profile_all"

\* The steps of kind k among those attempted so far.
Attempts(k) == {j \in 1..Len(inv.attempted) : inv.attempted[j].kind = k}

\* C29: in stock:fetch:profile_all every price fetch directly follows the profile
\* fetch of the same stock code; the step after a profile fetch is the price fetch of
\* that stock code whatever the profile fetch returned; and at the return each stock
\* code of the list has had both.
C29_ProfileThenPrice ==
  /\ [](InProfileAll =>
          /\ \A j \in Attempts("price") :
               j > 1 /\ inv.attempted[j - 1] =
                          [kind |-> "profile", unit |-> inv.attempted[j].unit]
          /\ \A j \in Attempts("profile") :
               j < Len(inv.attempted) =>
                 inv.attempted[j + 1] = [kind |-> "price", unit |-> inv.attempted[j].unit]
          /\ last.result = "ok" =>
               /\ Cardinality(Attempts("profile")) = Len(cfg.StockList)
               /\ Cardinality(Attempts("price")) = Len(cfg.StockList))
  /\ [][\A page \in ProfilePages, dbOk \in Booleans :
          StockProfileAllProfile(page, dbOk) => (cliPc' = "profAllPrice" /\ idx' = idx)]_vars

\* C29 witness: profile_all over two stock codes has returned; no profile was stored
\* (the companies table is still empty), yet both prices were fetched.
C29_Witness ==
  /\ Returned("stock:fetch:profile_all") /\ last.result = "ok"
  /\ Len(cfg.StockList) = 2 /\ companies = {}
  /\ Cardinality(Attempts("price")) = 2 /\ inv.net = 4

\* ---------------------------------------------------------------------------
\* Requests whose end date is before their start date
\* ---------------------------------------------------------------------------

\* Both dates are in the layout 2006-01-02 and the end date is the earlier one.
EndsBeforeStart(req) ==
  \E s, e \in Days : /\ DateStrOf[s] = req.start_date
                     /\ DateStrOf[e] = req.end_date
                     /\ e < s

\* C30: a GET of /api/fx/rates with a three-letter code, or of /api/stock/prices with
\* a code, whose end_date is before its start_date is not refused: the handler runs
\* its query and, the query succeeding, answers 200 with an empty array.
C30_ReversedDatesGiveEmpty ==
  [][/\ \A req \in Requests :
          (req.method = "GET" /\ CodeLen(req.code) = 3 /\ EndsBeforeStart(req)
             /\ handleGetFxRates(req, TRUE)) =>
            api' = [path |-> FxRatesPath, status |-> 200, body |-> <<>>, queried |-> TRUE]
     /\ \A req \in StockRequests :
          (req.method = "GET" /\ req.code # "" /\ EndsBeforeStart(req)
             /\ handleGetStockPrices(req, TRUE)) =>
            api' = [path |-> StockPricesPath, status |-> 200, body |-> <<>>,
                    queried |-> TRUE]]_vars

\* C30 witness: prices of 1155 were asked from the second day back to the first and
\* the answer is an empty array, while the table holds a price of 1155 for each of
\* these days.
C30_Witness ==
  /\ asked = [method |-> "GET", code |-> "1155", start_date |-> DateStrOf[2],
              end_date |-> DateStrOf[1]]
  /\ api = [path |-> StockPricesPath, status |-> 200, body |-> <<>>, queried |-> TRUE]
  /\ \A d \in 1..2 : \E r \in priceStore : r.stock_code = "1155" /\ r.price_date = d
  /\ \E c \in companies : c.stock_code = "1155"

====
